---- MODULE Spec2Model ----
(***************************************************************************)
(* Policy loading and caching of opa_lambda: the HTTP policy-service       *)
(* loader (PolicyServiceLoader) with its per-name cache entries, the       *)
(* conditional fetch, the jittered revalidation window and the on-disk     *)
(* fallback copy.  Concurrent LoadPolicy calls are processes; every        *)
(* blocking point of the code (lock acquisition, the network request, the  *)
(* file operations of persistPolicy) is a position of a process.           *)
(***************************************************************************)
EXTENDS Integers, Sequences, FiniteSets, TLC

\* ------------------------------------------------------------------ bounds

\* Number of LoadPolicy calls started in one behaviour.
MaxCalls == 2
\* Last instant of the clock (time.Now() takes the values 1..MaxTime).
MaxTime == 2

\* Number of S3PolicyLoader.LoadPolicy calls started in one behaviour.
MaxS3Calls == 3

\* ------------------------------------------------------------- value sets

None == "none"
Absent == <<"absent">>

\* Concurrent callers of LoadPolicy.
Procs == {"p1", "p2"}
\* Loader instances; they share the cache directory on disk.
Loaders == {"L1", "L2"}

\* Policy names, as sequences of characters: "a", "b.c", the empty name and
\* a name with a character that no path segment may hold.
PolicyNames == {<<"a">>, <<"b", ".", "c">>, <<>>, <<"?">>}
\* The names that are requested of several loader instances at once.
SharedNames == {<<"a">>}
\* The names that are requested of one loader instance at once.
KeyNames == {<<"a">>, <<"b", ".", "c">>}

\* Response bodies, as sequences of chunks (of different lengths).
Bodies == {<<"x">>, <<"y", "z">>}
\* The policy versions the service serves: a body and its Etag header ("" is
\* a missing header).
Versions == {<<<<"x">>, "v1">>, <<<<"y", "z">>, "">>}
\* Status codes the service answers with.
Statuses == {200, 201, 304, 404, 500}

\* time.Time{}: the nextSync of an entry that was never scheduled.
ZeroTime == 0

VARIABLES
    cfg,    \* cfg[l]: the loader's PolicyServiceConfig (immutable)
    mu,     \* mu[l]: the loader-wide sync.RWMutex
    cache,  \* cache[l][n]: the policyCacheEntry of name n, or NoEntry
    disk,   \* disk[path]: contents of a file of the cache directory, or Absent
    now,    \* the clock
    procs,  \* procs[p]: position and locals of caller p
    ret,    \* what LoadPolicy returned in the last step, NoRet if no call returned in it
    calls,  \* number of LoadPolicy calls started
    persisted, \* persisted[path]: the module text of the last fetch whose
               \* persistPolicy renamed its temporary file to path, or Absent
    s3mu,      \* the sync.RWMutex of the S3PolicyLoader
    s3cache,   \* s3cache[n]: the S3PolicyLoader's cached text of name n, or Absent
    s3procs,   \* s3procs[p]: position and locals of caller p of S3PolicyLoader.LoadPolicy
    s3ret,     \* what S3PolicyLoader.LoadPolicy returned in the last step
    s3calls,   \* number of S3PolicyLoader.LoadPolicy calls started
    rt,        \* the last event handleLambda handled, with its response
    unit       \* the function of the package that was applied on its own in
               \* the last step, with its arguments and its result

\* The state of the policy-service loaders and their callers.
psvars == <<cfg, mu, cache, disk, now, procs, ret, calls, persisted>>
\* The state of the S3 loader and its callers.
s3vars == <<s3mu, s3cache, s3procs, s3ret, s3calls>>
vars == <<cfg, mu, cache, disk, now, procs, ret, calls, persisted,
          s3mu, s3cache, s3procs, s3ret, s3calls, rt, unit>>

\* ------------------------------------------------------------ the key codec

\* Characters a path segment may hold.
SegmentChars == {"a", "b", "c"}

\* KeyToFilename(policyName): the dots of the name become path separators and
\* ".rego" is appended; the empty name and a name with a character that is
\* illegal in a path segment are rejected.
KeyToFilename(name) ==
    IF name = <<>> \/ \E i \in 1..Len(name) : name[i] \notin SegmentChars \cup {"."}
    THEN [ok |-> FALSE, path |-> <<>>]
    ELSE [ok |-> TRUE,
          path |-> [i \in 1..Len(name) |-> IF name[i] = "." THEN "/" ELSE name[i]]
                   \o <<".rego">>]

\* ------------------------------------------------------------ configuration

DefaultPollMin == 10
DefaultHTTPTimeout == 15
\* filepath.Join(os.TempDir(), ".opa", "policies")
DefaultCacheDir == "/tmp/.opa/policies"

\* A URL, a prefix or a path is the sequence of its pieces, a "/" being a
\* piece of its own.
\* strings.TrimLeft(s, "/")
RECURSIVE TrimLeft(_)
TrimLeft(s) == IF s # <<>> /\ Head(s) = "/" THEN TrimLeft(Tail(s)) ELSE s
\* strings.TrimRight(s, "/")
RECURSIVE TrimRight(_)
TrimRight(s) ==
    IF s # <<>> /\ s[Len(s)] = "/" THEN TrimRight(SubSeq(s, 1, Len(s) - 1)) ELSE s
\* strings.Trim(s, "/")
Trim(s) == TrimLeft(TrimRight(s))

\* Mutant: PollMax is kept as it is given.
NewPolicyServiceLoaderNoClamp(c) ==
    LET c0 == [c EXCEPT !.ServiceURL = TrimRight(c.ServiceURL),
                        !.ResourcePrefix = Trim(c.ResourcePrefix),
                        !.CacheDir = IF c.CacheDir = "" THEN DefaultCacheDir ELSE c.CacheDir]
        c1 == IF c0.PollMin <= 0 THEN [c0 EXCEPT !.PollMin = DefaultPollMin] ELSE c0
        c3 == IF c1.HTTPTimeout <= 0 THEN [c1 EXCEPT !.HTTPTimeout = DefaultHTTPTimeout]
              ELSE c1
    IN  [ok |-> c.ServiceURL # <<>>, cfg |-> c3]

\* NewPolicyServiceLoader: whether a loader is built, and the configuration
\* the loader keeps: ServiceURL is its baseURL, ResourcePrefix its
\* resourcePrefix and CacheDir its cacheDir.
NewPolicyServiceLoader(c) ==
    LET c0 == [c EXCEPT !.ServiceURL = TrimRight(c.ServiceURL),
                        !.ResourcePrefix = Trim(c.ResourcePrefix),
                        !.CacheDir = IF c.CacheDir = "" THEN DefaultCacheDir ELSE c.CacheDir]
        c1 == IF c0.PollMin <= 0 THEN [c0 EXCEPT !.PollMin = DefaultPollMin] ELSE c0
        c2 == IF c1.PollMax < c1.PollMin THEN [c1 EXCEPT !.PollMax = c1.PollMin] ELSE c1
        c3 == IF c2.HTTPTimeout <= 0 THEN [c2 EXCEPT !.HTTPTimeout = DefaultHTTPTimeout]
              ELSE c2
    IN  [ok |-> c.ServiceURL # <<>>, cfg |-> c3]

\* Configurations the loaders are built from.
CfgInputs ==
    {[ServiceURL |-> <<"http://svc">>, ResourcePrefix |-> <<"policies">>, BearerToken |-> "",
      Persist |-> (pm = 3), CacheDir |-> "/cache", PollMin |-> 1, PollMax |-> pm,
      HTTPTimeout |-> 0] : pm \in {0, 3}}

\* Mutant: the random offset may be the whole of PollMax - PollMin.
nextIntervalInclusive(c, t) ==
    IF c.PollMax > c.PollMin
    THEN {t + c.PollMin + r : r \in 0..(c.PollMax - c.PollMin)}
    ELSE {t + c.PollMin}

\* nextInterval(): the instants the next revalidation may be scheduled at,
\* one per value rand.Int63n can return.
nextInterval(c, t) ==
    IF c.PollMax > c.PollMin
    THEN {t + c.PollMin + r : r \in 0..(c.PollMax - c.PollMin - 1)}
    ELSE {t + c.PollMin}

\* ------------------------------------------------------------ cache entries

\* &policyCacheEntry{}: the zero entry getEntry inserts.
policyCacheEntry ==
    [exists |-> TRUE, mu |-> None, module |-> <<>>, etag |-> "", nextSync |-> ZeroTime, loaded |-> FALSE]

\* l.cache[policyName] of a name that was never requested (a nil pointer).
NoEntry == [policyCacheEntry EXCEPT !.exists = FALSE]

\* The fields of an entry that its lock protects.
Fields(e) == [module |-> e.module, etag |-> e.etag, nextSync |-> e.nextSync,
              loaded |-> e.loaded]

\* Mutant: the comparison with nextSync is inverted.
IsFreshAfter(e, t) == e.loaded /\ t > e.nextSync

\* entry.loaded && time.Now().Before(entry.nextSync)
IsFresh(e, t) == e.loaded /\ t < e.nextSync

\* Mutant: LoadPolicy does not wait for the entry's mutex.
EntryLockIgnored(e) == TRUE

\* entry.mu.Lock() can return: nobody holds the entry's mutex.
EntryLockFree(e) == e.mu = None

\* ------------------------------------------------------------ the request

\* Mutant: the resource prefix is joined even when there is none.
RequestURLAlwaysPrefixed(c, filename) ==
    c.ServiceURL \o <<"/">> \o c.ResourcePrefix \o <<"/">> \o filename

\* The URL of the policy: base URL, resource prefix (if any), file name.
RequestURL(c, filename) ==
    LET path == IF c.ResourcePrefix # <<>> THEN c.ResourcePrefix \o <<"/">> \o filename
                ELSE filename
    IN  c.ServiceURL \o <<"/">> \o TrimLeft(path)

\* Mutant: the stored token is never sent.
NewRequestUnconditional(c, e, filename) ==
    [method |-> "GET", url |-> RequestURL(c, filename),
     ifNoneMatch |-> None,
     authorization |-> IF c.BearerToken # "" THEN <<"Bearer ", c.BearerToken>> ELSE <<>>]

\* The conditional GET refreshPolicy builds; None is a header that is not set.
NewRequest(c, e, filename) ==
    [method |-> "GET", url |-> RequestURL(c, filename),
     ifNoneMatch |-> IF e.etag # "" THEN e.etag ELSE None,
     authorization |-> IF c.BearerToken # "" THEN <<"Bearer ", c.BearerToken>> ELSE <<>>]

\* No request.
NoRequest == [method |-> "", url |-> <<>>, ifNoneMatch |-> None, authorization |-> <<>>]

\* What client.Do and the reading of the body can produce: a transport error
\* (connection refused, timeout), a cancelled or expired context, or a
\* response; readOk is whether io.ReadAll of the body succeeds.
Responses ==
    {[kind |-> "err", cause |-> c, status |-> 0, body |-> <<>>, etag |-> "", readOk |-> FALSE] :
        c \in {"transport", "canceled"}}
    \cup {[kind |-> "resp", cause |-> "nil", status |-> s, body |-> <<>>, etag |-> "",
           readOk |-> TRUE] : s \in Statuses \ {200}}
    \cup {[kind |-> "resp", cause |-> "nil", status |-> 200, body |-> v[1], etag |-> v[2],
           readOk |-> TRUE] : v \in Versions}
    \cup {[kind |-> "resp", cause |-> "nil", status |-> 200, body |-> <<>>, etag |-> "",
           readOk |-> FALSE]}

\* io.LimitReader(resp.Body, 1024)
ErrorBodyLimit == 1024

Min(a, b) == IF a < b THEN a ELSE b

\* The body of an answer that is not a policy, by the number of its bytes:
\* lead bytes of white space, core bytes of text without white space, trail
\* bytes of white space.
ErrorBodies == [lead : {0, 2}, core : {0, 5, 1022, 1024, 1025, 3000}, trail : {0, 1}]

\* Mutant: the whole body is read into the error.
downloadFailedUnlimited(status, raw) ==
    [status |-> status, from |-> raw.lead, len |-> raw.core]

\* The error "policy download failed" of refreshPolicy for an answer of the
\* given status and body: the status, and the bytes of the body it carries
\* (len bytes from offset from), which are what strings.TrimSpace leaves of
\* the bytes read through the LimitReader.
downloadFailed(status, raw) ==
    LET n == Min(raw.lead + raw.core + raw.trail, ErrorBodyLimit)
        lead == Min(raw.lead, n)
        core == Min(raw.core, n - lead)
    IN  [status |-> status, from |-> IF core = 0 THEN 0 ELSE lead, len |-> core]

\* Mutant: a 404 is handled as any other status that is not 200.
refreshPolicyNo404(c, e, r, ns) ==
    IF r.kind = "err" THEN [err |-> r.cause, entry |-> e, persist |-> FALSE]
    ELSE IF r.status = 304
    THEN IF ~e.loaded THEN [err |-> "notmodified", entry |-> e, persist |-> FALSE]
         ELSE [err |-> "nil", entry |-> [e EXCEPT !.nextSync = ns], persist |-> FALSE]
    ELSE IF r.status # 200 THEN [err |-> "status", entry |-> e, persist |-> FALSE]
    ELSE IF ~r.readOk THEN [err |-> "body", entry |-> e, persist |-> FALSE]
    ELSE [err |-> "nil",
          entry |-> [e EXCEPT !.module = r.body, !.etag = r.etag, !.loaded = TRUE,
                              !.nextSync = ns],
          persist |-> c.Persist]

\* Mutant: a failed client.Do reschedules the next revalidation.
refreshPolicyBackoff(c, e, r, ns) ==
    IF r.kind = "err"
    THEN [err |-> r.cause, entry |-> [e EXCEPT !.nextSync = ns], persist |-> FALSE]
    ELSE IF r.status = 304
    THEN IF ~e.loaded THEN [err |-> "notmodified", entry |-> e, persist |-> FALSE]
         ELSE [err |-> "nil", entry |-> [e EXCEPT !.nextSync = ns], persist |-> FALSE]
    ELSE IF r.status = 404 THEN [err |-> "notfound", entry |-> e, persist |-> FALSE]
    ELSE IF r.status # 200 THEN [err |-> "status", entry |-> e, persist |-> FALSE]
    ELSE IF ~r.readOk THEN [err |-> "body", entry |-> e, persist |-> FALSE]
    ELSE [err |-> "nil",
          entry |-> [e EXCEPT !.module = r.body, !.etag = r.etag, !.loaded = TRUE,
                              !.nextSync = ns],
          persist |-> c.Persist]

\* Mutant: a 404 empties the entry.
refreshPolicy404Evicts(c, e, r, ns) ==
    IF r.kind = "err" THEN [err |-> r.cause, entry |-> e, persist |-> FALSE]
    ELSE IF r.status = 304
    THEN IF ~e.loaded THEN [err |-> "notmodified", entry |-> e, persist |-> FALSE]
         ELSE [err |-> "nil", entry |-> [e EXCEPT !.nextSync = ns], persist |-> FALSE]
    ELSE IF r.status = 404
    THEN [err |-> "notfound",
          entry |-> [e EXCEPT !.module = <<>>, !.etag = "", !.loaded = FALSE],
          persist |-> FALSE]
    ELSE IF r.status # 200 THEN [err |-> "status", entry |-> e, persist |-> FALSE]
    ELSE IF ~r.readOk THEN [err |-> "body", entry |-> e, persist |-> FALSE]
    ELSE [err |-> "nil",
          entry |-> [e EXCEPT !.module = r.body, !.etag = r.etag, !.loaded = TRUE,
                              !.nextSync = ns],
          persist |-> c.Persist]

\* Mutant: every 2xx status is a success.
refreshPolicyAny2xx(c, e, r, ns) ==
    IF r.kind = "err" THEN [err |-> r.cause, entry |-> e, persist |-> FALSE]
    ELSE IF r.status = 304
    THEN IF ~e.loaded THEN [err |-> "notmodified", entry |-> e, persist |-> FALSE]
         ELSE [err |-> "nil", entry |-> [e EXCEPT !.nextSync = ns], persist |-> FALSE]
    ELSE IF r.status = 404 THEN [err |-> "notfound", entry |-> e, persist |-> FALSE]
    ELSE IF r.status < 200 \/ r.status > 299
    THEN [err |-> "status", entry |-> e, persist |-> FALSE]
    ELSE IF ~r.readOk THEN [err |-> "body", entry |-> e, persist |-> FALSE]
    ELSE [err |-> "nil",
          entry |-> [e EXCEPT !.module = r.body, !.etag = r.etag, !.loaded = TRUE,
                              !.nextSync = ns],
          persist |-> c.Persist]

\* Mutant: a 304 takes the entry's etag from the response, which has none.
refreshPolicy304TakesETag(c, e, r, ns) ==
    IF r.kind = "err" THEN [err |-> r.cause, entry |-> e, persist |-> FALSE]
    ELSE IF r.status = 304
    THEN IF ~e.loaded THEN [err |-> "notmodified", entry |-> e, persist |-> FALSE]
         ELSE [err |-> "nil", entry |-> [e EXCEPT !.etag = r.etag, !.nextSync = ns],
               persist |-> FALSE]
    ELSE IF r.status = 404 THEN [err |-> "notfound", entry |-> e, persist |-> FALSE]
    ELSE IF r.status # 200 THEN [err |-> "status", entry |-> e, persist |-> FALSE]
    ELSE IF ~r.readOk THEN [err |-> "body", entry |-> e, persist |-> FALSE]
    ELSE [err |-> "nil",
          entry |-> [e EXCEPT !.module = r.body, !.etag = r.etag, !.loaded = TRUE,
                              !.nextSync = ns],
          persist |-> c.Persist]

\* refreshPolicy from the answer of client.Do on: the error it returns, the
\* entry it leaves, and whether it goes on to persistPolicy.  ns is the
\* instant nextInterval() returns.
refreshPolicy(c, e, r, ns) ==
    IF r.kind = "err" THEN [err |-> r.cause, entry |-> e, persist |-> FALSE]
    ELSE IF r.status = 304
    THEN IF ~e.loaded THEN [err |-> "notmodified", entry |-> e, persist |-> FALSE]
         ELSE [err |-> "nil", entry |-> [e EXCEPT !.nextSync = ns], persist |-> FALSE]
    ELSE IF r.status = 404 THEN [err |-> "notfound", entry |-> e, persist |-> FALSE]
    ELSE IF r.status # 200 THEN [err |-> "status", entry |-> e, persist |-> FALSE]
    ELSE IF ~r.readOk THEN [err |-> "body", entry |-> e, persist |-> FALSE]
    ELSE [err |-> "nil",
          entry |-> [e EXCEPT !.module = r.body, !.etag = r.etag, !.loaded = TRUE,
                              !.nextSync = ns],
          persist |-> c.Persist]

\* ------------------------------------------------------------ the disk

\* filepath.Join(l.cacheDir, filename)
FullPath(c, filename) == <<c.CacheDir, "/">> \o filename
\* fullPath + ".tmp"
TmpPath(fullPath) == fullPath \o <<".tmp">>

\* The files the loaders can name.
DiskPaths ==
    LET finals == {FullPath(c, KeyToFilename(n).path) :
                      c \in CfgInputs, n \in {m \in PolicyNames : KeyToFilename(m).ok}}
    IN  finals \cup {TmpPath(f) : f \in finals}

\* A write of data at offset 0 of a file that holds old.
Overwrite(old, data) == data \o SubSeq(old, Len(data) + 1, Len(old))

\* readPersistedPolicy: the text of the persisted copy; ioOk is whether
\* os.ReadFile succeeds on an existing file.
readPersistedPolicy(c, name, d, ioOk) ==
    LET k == KeyToFilename(name)
    IN  IF ~k.ok THEN [ok |-> FALSE, text |-> <<>>]
        ELSE IF d[FullPath(c, k.path)] = Absent \/ ~ioOk THEN [ok |-> FALSE, text |-> <<>>]
        ELSE [ok |-> TRUE, text |-> d[FullPath(c, k.path)]]

\* Mutant: a failure answered from the copy in memory schedules the next
\* revalidation.
onRefreshErrorBacksOff(c, e, err, file, ns) ==
    IF e.loaded
    THEN [res |-> e.module, err |-> "nil", entry |-> [e EXCEPT !.nextSync = ns], read |-> "no"]
    ELSE IF c.Persist /\ file.ok
    THEN [res |-> file.text, err |-> "nil",
          entry |-> [e EXCEPT !.module = file.text, !.loaded = TRUE, !.etag = "",
                              !.nextSync = ns],
          read |-> "ok"]
    ELSE [res |-> <<>>, err |-> err, entry |-> e,
          read |-> IF c.Persist THEN "failed" ELSE "no"]

\* Mutant: the persisted copy is returned but the entry does not adopt it.
onRefreshErrorNoAdopt(c, e, err, file, ns) ==
    IF e.loaded THEN [res |-> e.module, err |-> "nil", entry |-> e, read |-> "no"]
    ELSE IF c.Persist /\ file.ok
    THEN [res |-> file.text, err |-> "nil", entry |-> e, read |-> "ok"]
    ELSE [res |-> <<>>, err |-> err, entry |-> e,
          read |-> IF c.Persist THEN "failed" ELSE "no"]

\* Mutant: the persisted copy is read whether persistence is enabled or not.
onRefreshErrorReadsAlways(c, e, err, file, ns) ==
    IF e.loaded THEN [res |-> e.module, err |-> "nil", entry |-> e, read |-> "no"]
    ELSE IF file.ok
    THEN [res |-> file.text, err |-> "nil",
          entry |-> [e EXCEPT !.module = file.text, !.loaded = TRUE, !.etag = "",
                              !.nextSync = ns],
          read |-> "ok"]
    ELSE [res |-> <<>>, err |-> err, entry |-> e, read |-> "failed"]

\* Mutant: the cached module is not served after a failed refresh.
onRefreshErrorNoStale(c, e, err, file, ns) ==
    IF c.Persist /\ file.ok /\ ~e.loaded
    THEN [res |-> file.text, err |-> "nil",
          entry |-> [e EXCEPT !.module = file.text, !.loaded = TRUE, !.etag = "",
                              !.nextSync = ns],
          read |-> "ok"]
    ELSE [res |-> <<>>, err |-> err, entry |-> e,
          read |-> IF c.Persist /\ ~e.loaded THEN "failed" ELSE "no"]

\* Mutant: the adopted copy gets no nextSync.
onRefreshErrorNoSchedule(c, e, err, file, ns) ==
    IF e.loaded THEN [res |-> e.module, err |-> "nil", entry |-> e, read |-> "no"]
    ELSE IF c.Persist /\ file.ok
    THEN [res |-> file.text, err |-> "nil",
          entry |-> [e EXCEPT !.module = file.text, !.loaded = TRUE, !.etag = ""],
          read |-> "ok"]
    ELSE [res |-> <<>>, err |-> err, entry |-> e,
          read |-> IF c.Persist THEN "failed" ELSE "no"]

\* Mutant: the error of readPersistedPolicy is not checked.
onRefreshErrorUnchecked(c, e, err, file, ns) ==
    IF e.loaded THEN [res |-> e.module, err |-> "nil", entry |-> e, read |-> "no"]
    ELSE IF c.Persist
    THEN [res |-> file.text, err |-> "nil",
          entry |-> [e EXCEPT !.module = file.text, !.loaded = TRUE, !.etag = "",
                              !.nextSync = ns],
          read |-> IF file.ok THEN "ok" ELSE "failed"]
    ELSE [res |-> <<>>, err |-> err, entry |-> e, read |-> "no"]

\* LoadPolicy after refreshPolicy returned err: the stale copy, the persisted
\* copy or the error.  file is the result of readPersistedPolicy, ns the
\* instant nextInterval() returns; read is "no" when readPersistedPolicy was
\* not called, "ok" when it returned the text and "failed" when it failed.
onRefreshError(c, e, err, file, ns) ==
    IF e.loaded THEN [res |-> e.module, err |-> "nil", entry |-> e, read |-> "no"]
    ELSE IF c.Persist /\ file.ok
    THEN [res |-> file.text, err |-> "nil",
          entry |-> [e EXCEPT !.module = file.text, !.loaded = TRUE, !.etag = "",
                              !.nextSync = ns],
          read |-> "ok"]
    ELSE [res |-> <<>>, err |-> err, entry |-> e,
          read |-> IF c.Persist THEN "failed" ELSE "no"]

\* ------------------------------------------------------------ callers

\* A caller outside LoadPolicy.  saw is what a caller has seen, while it
\* waited for its entry, of the last call on that entry that issued a request
\* and returned meanwhile: kind "ok" when that call left the entry refreshed
\* (or adopted the persisted copy), "fail" when it left the entry as it was,
\* with what that call returned; kind "no" when there was no such call.
\* Once the caller has sent its own request only the kind is kept.
NoSaw == [kind |-> "no", res |-> <<>>, err |-> "nil"]
\* Nothing is left to assign to the entry.  Otherwise pend holds what
\* refreshPolicy has still to assign after entry.module, the etag and loaded
\* (nextSync is what nextInterval() returns then), with whether persistPolicy
\* follows and the answer they come from.
NoPend == [etag |-> "", loaded |-> FALSE, persist |-> FALSE, resp |-> "none"]
IdleProc == [pc |-> "idle", l |-> None, n |-> <<>>, fd |-> None, saw |-> NoSaw,
             pre |-> Fields(policyCacheEntry), pend |-> NoPend]

\* No call returned in the last step.
NoRet == [p |-> None, l |-> None, n |-> <<>>, res |-> <<>>, err |-> "nil", reqs |-> 0,
          resp |-> "none", read |-> "no", wrote |-> FALSE, saw |-> NoSaw,
          pre |-> Fields(policyCacheEntry), post |-> Fields(policyCacheEntry),
          rerr |-> "nil", mid |-> Fields(policyCacheEntry)]

\* Positions inside getEntry, before the entry's lock is taken.
WaitingPCs == {"getEntry", "getEntryRead", "getEntryLock", "getEntryInsert", "lockEntry"}
\* Positions of a refresh: the request is pending or its result is persisted.
RefreshPCs == {"net", "update", "persistWrite", "persistRename"}
\* Positions of persistPolicy.
FilePCs == {"persistWrite", "persistRename"}

\* ------------------------------------------------------------ the S3 loader

\* The names that are requested of the S3 loader.
S3Names == {<<"a">>, <<"?">>}

\* What GetObjectWithContext and the reading of the object's body can
\* produce: an error, or an object whose body io.ReadAll reads or fails on.
S3Results ==
    {[ok |-> FALSE, body |-> <<>>, readOk |-> FALSE]}
    \cup {[ok |-> TRUE, body |-> b, readOk |-> TRUE] : b \in Bodies}
    \cup {[ok |-> TRUE, body |-> <<>>, readOk |-> FALSE]}

\* A caller outside S3PolicyLoader.LoadPolicy.  policy is the local variable
\* of that name; start is what the cache held for the name when the call
\* started.
S3IdleProc == [pc |-> "idle", n |-> <<>>, policy |-> <<>>, start |-> Absent]
\* No call of S3PolicyLoader.LoadPolicy returned in the last step.  gets is
\* the number of GetObject calls of the call that returned.
NoS3Ret == [p |-> None, n |-> <<>>, res |-> <<>>, err |-> "nil", gets |-> 0,
            start |-> Absent]
S3Return(p, n, res, err, gets, start) ==
    [p |-> p, n |-> n, res |-> res, err |-> err, gets |-> gets, start |-> start]

\* Mutant: a failed fetch leaves an empty text in the cache.
S3FetchFailedCachesEmpty(c, n) == [c EXCEPT ![n] = <<>>]

\* The cache after a fetch of name n failed: LoadPolicy returns before it
\* touches the cache.
S3FetchFailed(c, n) == c

\* Mutant: a text that is already cached is not replaced.
S3CacheStoreIfAbsent(c, n, policy) == IF c[n] # Absent THEN c ELSE [c EXCEPT ![n] = policy]

\* loader.cache[policyName] = policy
S3CacheStore(c, n, policy) == [c EXCEPT ![n] = policy]

\* A caller enters S3PolicyLoader.LoadPolicy(ctx, n): KeyToFilename.
S3Call(p, n) ==
    /\ s3procs[p].pc = "idle"
    /\ s3calls < MaxS3Calls
    /\ s3calls' = s3calls + 1
    /\ IF KeyToFilename(n).ok
       THEN /\ s3procs' = [s3procs EXCEPT ![p] = [S3IdleProc EXCEPT !.pc = "rlock", !.n = n,
                                                                  !.start = s3cache[n]]]
            /\ s3ret' = NoS3Ret
       ELSE /\ s3ret' = S3Return(p, n, <<>>, "invalidname", 0, s3cache[n])
            /\ UNCHANGED s3procs
    /\ UNCHANGED <<s3mu, s3cache>>
    /\ UNCHANGED <<psvars, rt, unit>>

\* loader.mu.RLock()
S3RLock(p) ==
    /\ s3procs[p].pc = "rlock"
    /\ s3mu.writer = None
    /\ s3mu' = [s3mu EXCEPT !.readers = @ \cup {p}]
    /\ s3procs' = [s3procs EXCEPT ![p].pc = "check"]
    /\ s3ret' = NoS3Ret
    /\ UNCHANGED <<s3cache, s3calls>>
    /\ UNCHANGED <<psvars, rt, unit>>

\* The lookup of loader.cache[policyName] and loader.mu.RUnlock(): the cached
\* text is returned if there is one.
S3Check(p) ==
    LET n == s3procs[p].n IN
    /\ s3procs[p].pc = "check"
    /\ s3mu' = [s3mu EXCEPT !.readers = @ \ {p}]
    /\ IF s3cache[n] # Absent
       THEN /\ s3ret' = S3Return(p, n, s3cache[n], "nil", 0, s3procs[p].start)
            /\ s3procs' = [s3procs EXCEPT ![p] = S3IdleProc]
       ELSE /\ s3ret' = NoS3Ret
            /\ s3procs' = [s3procs EXCEPT ![p].pc = "fetch"]
    /\ UNCHANGED <<s3cache, s3calls>>
    /\ UNCHANGED <<psvars, rt, unit>>

\* GetObjectWithContext and io.ReadAll return r.
S3GetObject(p, r) ==
    LET n == s3procs[p].n IN
    /\ s3procs[p].pc = "fetch"
    /\ IF r.ok /\ r.readOk
       THEN /\ s3procs' = [s3procs EXCEPT ![p].pc = "lock", ![p].policy = r.body]
            /\ s3ret' = NoS3Ret
            /\ UNCHANGED s3cache
       ELSE /\ s3ret' = S3Return(p, n, <<>>, IF r.ok THEN "s3read" ELSE "s3get", 1,
                                 s3procs[p].start)
            /\ s3procs' = [s3procs EXCEPT ![p] = S3IdleProc]
            /\ s3cache' = S3FetchFailed(s3cache, n)
    /\ UNCHANGED <<s3mu, s3calls>>
    /\ UNCHANGED <<psvars, rt, unit>>

\* loader.mu.Lock()
S3Lock(p) ==
    /\ s3procs[p].pc = "lock"
    /\ s3mu.writer = None
    /\ s3mu.readers = {}
    /\ s3mu' = [s3mu EXCEPT !.writer = p]
    /\ s3procs' = [s3procs EXCEPT ![p].pc = "write"]
    /\ s3ret' = NoS3Ret
    /\ UNCHANGED <<s3cache, s3calls>>
    /\ UNCHANGED <<psvars, rt, unit>>

\* loader.cache[policyName] = policy; loader.mu.Unlock(); return policy, nil
S3Store(p) ==
    LET n == s3procs[p].n IN
    /\ s3procs[p].pc = "write"
    /\ s3cache' = S3CacheStore(s3cache, n, s3procs[p].policy)
    /\ s3mu' = [s3mu EXCEPT !.writer = None]
    /\ s3ret' = S3Return(p, n, s3procs[p].policy, "nil", 1, s3procs[p].start)
    /\ s3procs' = [s3procs EXCEPT ![p] = S3IdleProc]
    /\ UNCHANGED s3calls
    /\ UNCHANGED <<psvars, rt, unit>>

\* ---------------------------------------------------------------- the router

\* The texts a request body can be: empty, JSON text, text that is neither
\* JSON nor base64, the base64 encoding of JSON text, and the base64 encoding
\* of text that is not JSON.
BodyTexts == {"", "raw-json", "raw-junk", "b64-json", "b64-junk"}

\* What handleLambda reads of an event.  probeOk says whether json.Unmarshal
\* of the event into the probes succeeds, reqOk whether json.Unmarshal into the request type of the handler
\* that is chosen succeeds; policy and payload are the fields of the
\* LambdaEvent the request carries (in its body, or as the event itself when
\* it is a direct invocation).
Events ==
    [probeOk : BOOLEAN,
     targetGroupArn : {"", "arn"}, version : {"", "1.0", "2.0"},
     rawPath : {"", "/opa"}, apiId : {"", "abc123"},
     resource : {"", "/opa"}, stage : {"", "dev"},
     reqOk : BOOLEAN, body : BodyTexts, isBase64Encoded : BOOLEAN,
     policy : {"", "example"}, payload : {"nil", "input"}]

\* What the policy loader and the evaluator do when evaluatePolicy calls
\* them: NewPolicyLoader fails, EvaluatePolicy fails (the policy cannot be
\* loaded or evaluated), or a value is returned, which json.Marshal can
\* encode or not.
Outcomes == {"loader-err", "evaluate-err", "value", "value-unencodable"}

\* No function was applied on its own.
NoUnit == [f |-> "none"]

\* The statuses, answers (with the body of the answer as raw), entries and
\* configurations refreshPolicy is applied to on its own.
UnitStatuses == {400, 401, 403, 404, 429, 500, 502, 503}
UnitResponses ==
    {[kind |-> "resp", cause |-> "nil", status |-> s, body |-> <<>>, etag |-> "",
      readOk |-> TRUE, raw |-> b] : s \in UnitStatuses, b \in ErrorBodies}
UnitEntries ==
    {policyCacheEntry,
     [policyCacheEntry EXCEPT !.module = <<"x">>, !.etag = "v1", !.loaded = TRUE,
                              !.nextSync = 1],
     [policyCacheEntry EXCEPT !.module = <<"y", "z">>, !.etag = "", !.loaded = TRUE,
                              !.nextSync = 1]}
UnitConfigs == {NewPolicyServiceLoader(c).cfg : c \in CfgInputs}

\* refreshPolicy of a loader of configuration c, from the answer r on, for an
\* entry that holds e.
ApplyRefreshPolicy(c, e, r) ==
    /\ \E ns \in nextInterval(c, now) :
         LET out == refreshPolicy(c, e, r, ns)
         IN  unit' = [f |-> "refreshPolicy", c |-> c, e |-> e, r |-> r, out |-> out,
                      text |-> IF out.err = "status" THEN downloadFailed(r.status, r.raw)
                               ELSE [status |-> 0, from |-> 0, len |-> 0]]
    /\ UNCHANGED <<psvars, s3vars, rt>>

\* The configurations a loader that sends a request is built from.
RequestConfigs ==
    [ServiceURL : {<<"http://svc">>, <<"http://svc", "/">>},
     ResourcePrefix : {<<>>, <<"/">>, <<"policies">>, <<"/", "policies", "/">>},
     BearerToken : {"", "tok"}, Persist : {FALSE}, CacheDir : {"/cache"},
     PollMin : {1}, PollMax : {3}, HTTPTimeout : {0}]

\* The request refreshPolicy builds for name n and an entry that holds e, in
\* a loader that NewPolicyServiceLoader built from configuration c.
ApplyNewRequest(c, e, n) ==
    /\ NewPolicyServiceLoader(c).ok
    /\ KeyToFilename(n).ok
    /\ unit' = [f |-> "NewRequest", c |-> c, e |-> e, n |-> n,
                out |-> NewRequest(NewPolicyServiceLoader(c).cfg, e, KeyToFilename(n).path)]
    /\ UNCHANGED <<psvars, s3vars, rt>>

\* The configurations NewPolicyServiceLoader is called with, durations in
\* seconds.
BuildConfigs ==
    [ServiceURL : {<<>>, <<"/">>, <<"http://svc">>},
     ResourcePrefix : {<<"policies">>}, BearerToken : {""}, Persist : BOOLEAN,
     CacheDir : {"", "/cache"},
     PollMin : {-5, 0, 1, 10, 20}, PollMax : {-1, 0, 1, 5, 10, 30},
     HTTPTimeout : {-1, 0, 15, 30}]

\* NewPolicyServiceLoader(c)
ApplyNewPolicyServiceLoader(c) ==
    /\ unit' = [f |-> "NewPolicyServiceLoader", c |-> c, out |-> NewPolicyServiceLoader(c)]
    /\ UNCHANGED <<psvars, s3vars, rt>>

\* The event-routing layer before it has handled an event.
NoEvent == [handled |-> FALSE]

isALBEvent(ev) == ev.probeOk /\ ev.targetGroupArn # ""

isAPIGatewayProxyEvent(ev) ==
    /\ ev.probeOk
    /\ ev.version # "2.0"
    /\ (ev.resource # "" \/ ev.apiId # "" \/ ev.stage # "")

isAPIGatewayV2Event(ev) ==
    /\ ev.probeOk
    /\ (ev.version = "2.0" \/ ev.rawPath # "" \/ ev.apiId # "")

\* decodeBody(body, isBase64Encoded): an error, or the bytes of the body,
\* of which json says whether they are JSON text.
decodeBody(body, isBase64Encoded) ==
    IF body = "" THEN [err |-> "request body is required", json |-> FALSE]
    ELSE IF isBase64Encoded
    THEN IF body \in {"b64-json", "b64-junk"}
         THEN [err |-> "nil", json |-> body = "b64-json"]
         ELSE [err |-> "invalid base64 body", json |-> FALSE]
    ELSE [err |-> "nil", json |-> body = "raw-json"]

\* evaluatePolicy(ctx, req) when the loader and the evaluator answer out.
evaluatePolicy(req, out) ==
    IF req.policy = "" THEN [err |-> "policy is required", value |-> "none"]
    ELSE IF req.payload = "nil" THEN [err |-> "payload is required", value |-> "none"]
    ELSE IF out = "loader-err" THEN [err |-> "loader", value |-> "none"]
    ELSE IF out = "evaluate-err" THEN [err |-> "evaluate", value |-> "none"]
    ELSE [err |-> "nil", value |-> out]

\* A response of handleLambda: its Go type, its status code (0 for a
\* LambdaResponse, which has none), the output and error fields of the
\* LambdaResponse it is or carries in its body, the Go error returned with it
\* and the number of calls of evaluatePolicy that were made.
Response(type, status, output, error, goErr, evals) ==
    [type |-> type, status |-> status, output |-> output, error |-> error,
     goErr |-> goErr, evals |-> evals]

\* newALBResponse, newAPIGatewayProxyResponse, newAPIGatewayV2Response: the
\* response of the type with the LambdaResponse as its body, or status 500
\* and the status text when the LambdaResponse cannot be encoded.
newHTTPResponse(type, status, output, error, evals) ==
    IF output = "value-unencodable"
    THEN Response(type, 500, "none", "Internal Server Error", "nil", evals)
    ELSE Response(type, status, output, error, "nil", evals)

\* Mutant: a failure of evaluatePolicy is returned as a Go error as well.
handleHTTPRequestPropagates(type, ev, out) ==
    LET body == decodeBody(ev.body, ev.isBase64Encoded)
        res == evaluatePolicy(ev, out)
    IN  IF ~ev.reqOk THEN newHTTPResponse(type, 400, "none", "unable to parse payload", 0)
        ELSE IF body.err # "nil" THEN newHTTPResponse(type, 400, "none", body.err, 0)
        ELSE IF ~body.json THEN newHTTPResponse(type, 400, "none", "unable to parse body", 0)
        ELSE IF res.err # "nil" THEN Response(type, 500, "none", res.err, res.err, 1)
        ELSE newHTTPResponse(type, 200, res.value, "", 1)

\* handleALBRequest, handleAPIGatewayProxyRequest, handleAPIGatewayV2Request,
\* which differ in the type of the request and of the response only.
handleHTTPRequest(type, ev, out) ==
    LET body == decodeBody(ev.body, ev.isBase64Encoded)
        res == evaluatePolicy(ev, out)
    IN  IF ~ev.reqOk THEN newHTTPResponse(type, 400, "none", "unable to parse payload", 0)
        ELSE IF body.err # "nil" THEN newHTTPResponse(type, 400, "none", body.err, 0)
        ELSE IF ~body.json THEN newHTTPResponse(type, 400, "none", "unable to parse body", 0)
        ELSE IF res.err # "nil" THEN newHTTPResponse(type, 500, "none", res.err, 1)
        ELSE newHTTPResponse(type, 200, res.value, "", 1)

handleDirectLambdaEvent(ev, out) ==
    LET res == evaluatePolicy(ev, out)
        err == "unable to parse lambda payload"
    IN  IF ~ev.reqOk THEN Response("LambdaResponse", 0, "none", err, err, 0)
        ELSE IF res.err # "nil" THEN Response("LambdaResponse", 0, "none", res.err, res.err, 1)
        ELSE Response("LambdaResponse", 0, res.value, "", "nil", 1)

\* Mutant: the REST proxy probe is tried before the v2 probe.
handleLambdaProxyFirst(ev, out) ==
    IF isALBEvent(ev) THEN handleHTTPRequest("ALBTargetGroupResponse", ev, out)
    ELSE IF isAPIGatewayProxyEvent(ev) THEN handleHTTPRequest("APIGatewayProxyResponse", ev, out)
    ELSE IF isAPIGatewayV2Event(ev) THEN handleHTTPRequest("APIGatewayV2HTTPResponse", ev, out)
    ELSE handleDirectLambdaEvent(ev, out)

handleLambda(ev, out) ==
    IF isALBEvent(ev) THEN handleHTTPRequest("ALBTargetGroupResponse", ev, out)
    ELSE IF isAPIGatewayV2Event(ev) THEN handleHTTPRequest("APIGatewayV2HTTPResponse", ev, out)
    ELSE IF isAPIGatewayProxyEvent(ev) THEN handleHTTPRequest("APIGatewayProxyResponse", ev, out)
    ELSE handleDirectLambdaEvent(ev, out)

\* One invocation of the Lambda function: handleLambda handles event ev,
\* and the loader and the evaluator answer out if they are called.
Invoke(ev, out) ==
    /\ rt' = [handled |-> TRUE, ev |-> ev, out |-> out, resp |-> handleLambda(ev, out)]
    /\ UNCHANGED <<psvars, s3vars, unit>>

\* The state after the loaders of LS were built by NewPolicyServiceLoader;
\* the other loaders are not used.
InitFor(LS) ==
    LET built == {NewPolicyServiceLoader(c).cfg :
                     c \in {i \in CfgInputs : NewPolicyServiceLoader(i).ok}}
    IN
    /\ cfg \in [Loaders -> built]
    /\ \A l \in Loaders \ LS : cfg[l] = CHOOSE c \in built : c.Persist
    /\ mu = [l \in Loaders |-> [writer |-> None, readers |-> {}]]
    /\ cache = [l \in Loaders |-> [n \in PolicyNames |-> NoEntry]]
    /\ disk = [f \in DiskPaths |-> Absent]
    /\ now = 1
    /\ procs = [p \in Procs |-> IdleProc]
    /\ ret = NoRet
    /\ calls = 0
    /\ persisted = [f \in DiskPaths |-> Absent]
    /\ s3mu = [writer |-> None, readers |-> {}]
    /\ s3cache = [n \in S3Names |-> Absent]
    /\ s3procs = [p \in Procs |-> S3IdleProc]
    /\ s3ret = NoS3Ret
    /\ s3calls = 0
    /\ rt = NoEvent
    /\ unit = NoUnit

\* A caller enters LoadPolicy(ctx, n) of loader l.
Call(p, l, n) ==
    /\ procs[p].pc = "idle"
    /\ calls < MaxCalls
    /\ calls' = calls + 1
    /\ procs' = [procs EXCEPT ![p] = [IdleProc EXCEPT !.pc = "getEntry", !.l = l, !.n = n]]
    /\ UNCHANGED <<cfg, mu, cache, disk, now, persisted>>
    /\ UNCHANGED <<s3vars, rt, unit>>
    /\ ret' = NoRet

\* getEntry: l.mu.RLock()
getEntryRLock(p) ==
    LET l == procs[p].l IN
    /\ procs[p].pc = "getEntry"
    /\ mu[l].writer = None
    /\ mu' = [mu EXCEPT ![l].readers = @ \cup {p}]
    /\ procs' = [procs EXCEPT ![p].pc = "getEntryRead"]
    /\ UNCHANGED <<cfg, cache, disk, now, calls, persisted>>
    /\ UNCHANGED <<s3vars, rt, unit>>
    /\ ret' = NoRet

\* getEntry: entry := l.cache[policyName]; l.mu.RUnlock(); return it if not nil
getEntryRead(p) ==
    LET l == procs[p].l
        n == procs[p].n IN
    /\ procs[p].pc = "getEntryRead"
    /\ mu' = [mu EXCEPT ![l].readers = @ \ {p}]
    /\ procs' = [procs EXCEPT ![p].pc =
                    IF cache[l][n].exists THEN "lockEntry" ELSE "getEntryLock"]
    /\ UNCHANGED <<cfg, cache, disk, now, calls, persisted>>
    /\ UNCHANGED <<s3vars, rt, unit>>
    /\ ret' = NoRet

\* getEntry: l.mu.Lock()
getEntryLock(p) ==
    LET l == procs[p].l IN
    /\ procs[p].pc = "getEntryLock"
    /\ mu[l].writer = None
    /\ mu[l].readers = {}
    /\ mu' = [mu EXCEPT ![l].writer = p]
    /\ procs' = [procs EXCEPT ![p].pc = "getEntryInsert"]
    /\ UNCHANGED <<cfg, cache, disk, now, calls, persisted>>
    /\ UNCHANGED <<s3vars, rt, unit>>
    /\ ret' = NoRet

\* Mutant: getEntry returns without unlocking.
muUnlockMissing(m) == m

\* The loader-wide mutex after getEntry's deferred l.mu.Unlock().
muUnlock(m) == [m EXCEPT !.writer = None]

\* Mutant: the name is not looked up again under the write lock.
getEntryInsertAlways(p) ==
    LET l == procs[p].l
        n == procs[p].n IN
    /\ procs[p].pc = "getEntryInsert"
    /\ cache' = [cache EXCEPT ![l][n] = policyCacheEntry]
    /\ mu' = [mu EXCEPT ![l] = muUnlock(@)]
    /\ procs' = [procs EXCEPT ![p].pc = "lockEntry"]
    /\ UNCHANGED <<cfg, disk, now, calls, persisted>>
    /\ UNCHANGED <<s3vars, rt, unit>>
    /\ ret' = NoRet

\* getEntry: look the name up again, insert a new entry if there is none,
\* and unlock (deferred).
getEntryInsert(p) ==
    LET l == procs[p].l
        n == procs[p].n IN
    /\ procs[p].pc = "getEntryInsert"
    /\ cache' = IF cache[l][n].exists THEN cache
                ELSE [cache EXCEPT ![l][n] = policyCacheEntry]
    /\ mu' = [mu EXCEPT ![l] = muUnlock(@)]
    /\ procs' = [procs EXCEPT ![p].pc = "lockEntry"]
    /\ UNCHANGED <<cfg, disk, now, calls, persisted>>
    /\ UNCHANGED <<s3vars, rt, unit>>
    /\ ret' = NoRet

\* The persisted file of the call of caller q.
ProcPath(q) == FullPath(cfg[procs[q].l], KeyToFilename(procs[q].n).path)

\* The answer of the service, as the caller records it.
RespLabel(r) ==
    IF r.kind = "err" THEN r.cause
    ELSE IF r.status = 200 /\ ~r.readOk THEN "200 unreadable"
    ELSE ToString(r.status)

\* What LoadPolicy returns to caller p: the module text and the error, with
\* the number of requests the call issued, the answer of the service, whether
\* the persisted copy was read and was written, and the fields of the entry
\* when the call locked it and when it returns.  rerr is the error
\* refreshPolicy returned to LoadPolicy and mid the fields of the entry at
\* that point: no error and the final fields, unless RefreshReturned says
\* otherwise.
Return(p, res, err, reqs, resp, read, wrote, pre, post) ==
    [p |-> p, l |-> procs[p].l, n |-> procs[p].n, res |-> res, err |-> err,
     reqs |-> reqs, resp |-> resp, read |-> read, wrote |-> wrote,
     saw |-> procs[p].saw, pre |-> Fields(pre), post |-> Fields(post),
     rerr |-> "nil", mid |-> Fields(post)]

\* The return r of a call whose refreshPolicy returned the error err and
\* left the entry as e.
RefreshReturned(r, err, e) == [r EXCEPT !.rerr = err, !.mid = Fields(e)]

\* The callers after caller p returned r, having changed its entry or not:
\* p is outside LoadPolicy again, and the callers that wait for the same
\* entry have seen a call that issued a request return.
Returned(ps, p, r, changed) ==
    [q \in Procs |->
        IF q = p THEN IdleProc
        ELSE IF /\ ps[q].pc \in WaitingPCs
                /\ ps[q].l = r.l
                /\ ps[q].n = r.n
                /\ r.reqs > 0
        THEN [ps[q] EXCEPT !.saw = [kind |-> IF changed THEN "ok" ELSE "fail",
                                    res |-> r.res, err |-> r.err]]
        ELSE ps[q]]

\* Mutant: LoadPolicy returns without unlocking the entry.
entryUnlockMissing(e) == e

\* The entry once the deferred entry.mu.Unlock() has run.
entryUnlock(e) == [e EXCEPT !.mu = None]

\* LoadPolicy: entry.mu.Lock(), the freshness check and, for an entry that is
\* not fresh, refreshPolicy up to the sending of the request.
LoadPolicyLock(p) ==
    LET l == procs[p].l
        n == procs[p].n
        e == cache[l][n]
        k == KeyToFilename(n)
    IN
    /\ procs[p].pc = "lockEntry"
    /\ EntryLockFree(e)
    /\ IF IsFresh(e, now)
       THEN /\ ret' = Return(p, e.module, "nil", 0, "none", "no", FALSE, e, e)
            /\ procs' = Returned(procs, p, ret', FALSE)
            /\ cache' = [cache EXCEPT ![l][n] = entryUnlock(e)]
       ELSE IF ~k.ok
       THEN \E ns \in nextInterval(cfg[l], now) :
              LET f == onRefreshError(cfg[l], e, "invalidname",
                                      readPersistedPolicy(cfg[l], n, disk, TRUE), ns)
              IN  /\ ret' = RefreshReturned(Return(p, f.res, f.err, 0, "none", f.read,
                                                     FALSE, e, f.entry),
                                              "invalidname", e)
                  /\ procs' = Returned(procs, p, ret', FALSE)
                  /\ cache' = [cache EXCEPT ![l][n] = entryUnlock(f.entry)]
       ELSE /\ procs' = [procs EXCEPT ![p].pc = "net",
                                       ![p].saw = [NoSaw EXCEPT !.kind = procs[p].saw.kind]]
            /\ cache' = [cache EXCEPT ![l][n].mu = p]
            /\ ret' = NoRet
    /\ UNCHANGED <<cfg, mu, disk, now, calls, persisted>>
    /\ UNCHANGED <<s3vars, rt, unit>>

\* Mutant: a failure of persistPolicy is returned to the caller of LoadPolicy.
refreshDoneStrict(p, pre, full, persist, resp) ==
    LET l == procs[p].l
        n == procs[p].n
        tmp == TmpPath(ProcPath(p))
        ok == Return(p, full.module, "nil", 1, resp, "no", FALSE, pre, full)
        failed == Return(p, <<>>, "persist", 1, resp, "no", FALSE, pre, full)
    IN
    IF persist
    THEN \/ /\ disk' = [disk EXCEPT ![tmp] = <<>>]
            /\ cache' = [cache EXCEPT ![l][n] = full]
            /\ procs' = [procs EXCEPT ![p].pc = "persistWrite", ![p].fd = "tmp",
                                    ![p].pre = Fields(pre), ![p].pend = NoPend]
            /\ ret' = NoRet
         \/ /\ ret' = failed
            /\ procs' = Returned(procs, p, failed, TRUE)
            /\ cache' = [cache EXCEPT ![l][n] = entryUnlock(full)]
            /\ UNCHANGED disk
    ELSE /\ ret' = ok
         /\ procs' = Returned(procs, p, ok, TRUE)
         /\ cache' = [cache EXCEPT ![l][n] = entryUnlock(full)]
         /\ UNCHANGED disk

\* The end of a successful refreshPolicy of caller p, whose entry was pre when
\* the call locked it and is full now: persistPolicy up to the opening of the
\* temporary file when persist is set, else the return of LoadPolicy.
refreshDone(p, pre, full, persist, resp) ==
    LET l == procs[p].l
        n == procs[p].n
        tmp == TmpPath(ProcPath(p))
        ok == Return(p, full.module, "nil", 1, resp, "no", FALSE, pre, full)
    IN
    IF persist
    THEN \/ \* os.MkdirAll and the opening of the temporary file succeed
            /\ disk' = [disk EXCEPT ![tmp] = <<>>]
            /\ cache' = [cache EXCEPT ![l][n] = full]
            /\ procs' = [procs EXCEPT ![p].pc = "persistWrite", ![p].fd = "tmp",
                                    ![p].pre = Fields(pre), ![p].pend = NoPend]
            /\ ret' = NoRet
         \/ \* one of them fails: the failure is logged
            /\ ret' = ok
            /\ procs' = Returned(procs, p, ok, TRUE)
            /\ cache' = [cache EXCEPT ![l][n] = entryUnlock(full)]
            /\ UNCHANGED disk
    ELSE /\ ret' = ok
         /\ procs' = Returned(procs, p, ok, TRUE)
         /\ cache' = [cache EXCEPT ![l][n] = entryUnlock(full)]
         /\ UNCHANGED disk

\* client.Do returns with r: the rest of refreshPolicy up to the assignment
\* of entry.module (when only nextSync is assigned: up to the opening of the
\* temporary file of persistPolicy), or the error handling of LoadPolicy.
NetRespond(p, r) ==
    LET l == procs[p].l
        n == procs[p].n
        e == cache[l][n]
    IN
    /\ procs[p].pc = "net"
    /\ \E ns \in nextInterval(cfg[l], now) :
         LET out == refreshPolicy(cfg[l], e, r, ns)
             full == out.entry
         IN
         IF out.err = "nil"
         THEN IF full.module = e.module /\ full.etag = e.etag /\ full.loaded = e.loaded
              THEN refreshDone(p, e, full, out.persist, RespLabel(r))
              ELSE /\ cache' = [cache EXCEPT ![l][n].module = full.module]
                   /\ procs' = [procs EXCEPT
                                   ![p].pc = "update",
                                   ![p].pre = Fields(e),
                                   ![p].pend = [etag |-> full.etag, loaded |-> full.loaded,
                                                persist |-> out.persist,
                                                resp |-> RespLabel(r)]]
                   /\ ret' = NoRet
                   /\ UNCHANGED disk
         ELSE \E ioOk \in BOOLEAN :
                LET f == onRefreshError(cfg[l], out.entry, out.err,
                                        readPersistedPolicy(cfg[l], n, disk, ioOk), ns)
                IN  /\ ret' = RefreshReturned(Return(p, f.res, f.err, 1, RespLabel(r),
                                                       f.read, FALSE, e, f.entry),
                                                out.err, out.entry)
                    /\ procs' = Returned(procs, p, ret', Fields(f.entry) # Fields(e))
                    /\ cache' = [cache EXCEPT ![l][n] = entryUnlock(f.entry)]
                    /\ UNCHANGED disk
    /\ UNCHANGED <<cfg, mu, now, calls, persisted>>
    /\ UNCHANGED <<s3vars, rt, unit>>

\* refreshPolicy: the assignments of entry.etag, entry.loaded and
\* entry.nextSync = l.nextInterval() that follow the assignment of
\* entry.module, then as refreshDone.
entryUpdate(p) ==
    LET l == procs[p].l
        n == procs[p].n
        e == cache[l][n]
        d == procs[p].pend
    IN
    /\ procs[p].pc = "update"
    /\ \E ns \in nextInterval(cfg[l], now) :
          refreshDone(p, procs[p].pre,
                      [e EXCEPT !.etag = d.etag, !.loaded = d.loaded, !.nextSync = ns],
                      d.persist, d.resp)
    /\ UNCHANGED <<cfg, mu, now, calls, persisted>>
    /\ UNCHANGED <<s3vars, rt, unit>>

\* persistPolicy: os.WriteFile writes the module at the start of the file its
\* descriptor refers to (the temporary file, or the file the temporary file
\* has been renamed to meanwhile), or fails.
persistWrite(p) ==
    LET l == procs[p].l
        n == procs[p].n
        e == cache[l][n]
        final == ProcPath(p)
        target == IF procs[p].fd = "tmp" THEN TmpPath(final) ELSE final
    IN
    /\ procs[p].pc = "persistWrite"
    /\ \/ /\ disk' = IF procs[p].fd = "orphan" \/ disk[target] = Absent THEN disk
                     ELSE [disk EXCEPT ![target] = Overwrite(@, e.module)]
          /\ procs' = [procs EXCEPT ![p].pc = "persistRename", ![p].fd = None]
          /\ UNCHANGED cache
          /\ ret' = NoRet
       \/ /\ ret' = Return(p, e.module, "nil", 1, "200", "no", FALSE, procs[p].pre, e)
          /\ procs' = Returned(procs, p, ret', TRUE)
          /\ cache' = [cache EXCEPT ![l][n] = entryUnlock(e)]
          /\ UNCHANGED disk
    /\ UNCHANGED <<cfg, mu, now, calls, persisted>>
    /\ UNCHANGED <<s3vars, rt, unit>>

\* The descriptors of the other writers after the temporary file of path
\* final was renamed over it.
Renamed(ps, final) ==
    [q \in Procs |->
        IF ps[q].pc = "persistWrite" /\ ProcPath(q) = final
        THEN [ps[q] EXCEPT !.fd = IF @ = "tmp" THEN "final" ELSE "orphan"]
        ELSE ps[q]]

\* persistPolicy: os.Rename(tmp, fullPath), which fails when the temporary
\* file is gone; refreshPolicy and LoadPolicy then return.
persistRename(p) ==
    LET l == procs[p].l
        n == procs[p].n
        e == cache[l][n]
        final == ProcPath(p)
        tmp == TmpPath(final)
    IN
    /\ procs[p].pc = "persistRename"
    /\ \/ /\ disk[tmp] # Absent
          /\ disk' = [disk EXCEPT ![final] = disk[tmp], ![tmp] = Absent]
          /\ persisted' = [persisted EXCEPT ![final] = e.module]
          /\ ret' = Return(p, e.module, "nil", 1, "200", "no", TRUE, procs[p].pre, e)
          /\ procs' = Returned(Renamed(procs, final), p, ret', TRUE)
       \/ /\ ret' = Return(p, e.module, "nil", 1, "200", "no", FALSE, procs[p].pre, e)
          /\ procs' = Returned(procs, p, ret', TRUE)
          /\ UNCHANGED <<disk, persisted>>
    /\ cache' = [cache EXCEPT ![l][n] = entryUnlock(e)]
    /\ UNCHANGED <<cfg, mu, now, calls>>
    /\ UNCHANGED <<s3vars, rt, unit>>

\* Time passes.
Tick ==
    /\ now < MaxTime
    /\ now' = now + 1
    /\ UNCHANGED <<cfg, mu, cache, disk, procs, calls, persisted>>
    /\ UNCHANGED <<s3vars, rt, unit>>
    /\ ret' = NoRet

\* The steps of the callers when LoadPolicy is called on the loaders of LS
\* for the names of NS.
NextFor(LS, NS) ==
    \/ \E p \in Procs, l \in LS, n \in NS : Call(p, l, n)
    \/ \E p \in Procs : getEntryRLock(p)
    \/ \E p \in Procs : getEntryRead(p)
    \/ \E p \in Procs : getEntryLock(p)
    \/ \E p \in Procs : getEntryInsert(p)
    \/ \E p \in Procs : LoadPolicyLock(p)
    \/ \E p \in Procs, r \in Responses : NetRespond(p, r)
    \/ \E p \in Procs : entryUpdate(p)
    \/ \E p \in Procs : persistWrite(p)
    \/ \E p \in Procs : persistRename(p)
    \/ Tick

\* Two loader instances that share the cache directory, and concurrent
\* callers of both.
Init == InitFor(Loaders)
Next == NextFor(Loaders, SharedNames)
Spec == Init /\ [][Next]_vars

\* One loader instance and concurrent callers for several names.
InitKeys == InitFor({"L1"})
NextKeys == NextFor({"L1"}, KeyNames)
SpecKeys == InitKeys /\ [][NextKeys]_vars

\* The next step of the call of caller p.
Step(p) ==
    \/ getEntryRLock(p)
    \/ getEntryRead(p)
    \/ getEntryLock(p)
    \/ getEntryInsert(p)
    \/ LoadPolicyLock(p)
    \/ \E r \in Responses : NetRespond(p, r)
    \/ entryUpdate(p)
    \/ persistWrite(p)
    \/ persistRename(p)
\* A goroutine that can run does run, every network and file operation
\* returns, and a goroutine that waits for a mutex gets it when the mutex is
\* released again and again (sync.Mutex hands the lock over to a waiter that
\* has waited long; sync.RWMutex holds new readers back for a waiting writer).
Fairness == \A p \in Procs : SF_vars(Step(p))
\* One loader instance and concurrent callers for one name, scheduled fairly.
NextLive == NextFor({"L1"}, SharedNames)
SpecLive == InitKeys /\ [][NextLive]_vars /\ Fairness

\* One caller at a time: every call returns before the next one starts.
NextSeq ==
    \/ \E l \in Loaders, n \in SharedNames : Call("p1", l, n)
    \/ getEntryRLock("p1")
    \/ getEntryRead("p1")
    \/ getEntryLock("p1")
    \/ getEntryInsert("p1")
    \/ LoadPolicyLock("p1")
    \/ \E r \in Responses : NetRespond("p1", r)
    \/ entryUpdate("p1")
    \/ persistWrite("p1")
    \/ persistRename("p1")
    \/ Tick
SpecSeq == Init /\ [][NextSeq]_vars

\* Calls made one after the other, or refreshPolicy on its own with the
\* answers of a failing service.
NextStatus ==
    \/ unit = NoUnit /\ NextSeq
    \/ /\ unit = NoUnit
       /\ calls = 0
       /\ \E c \in UnitConfigs, e \in UnitEntries, r \in UnitResponses :
             ApplyRefreshPolicy(c, e, r)
SpecStatus == Init /\ [][NextStatus]_vars

\* Calls made one after the other, or the request of refreshPolicy on its own
\* for the configurations a loader can be built from.
NextRequest ==
    \/ unit = NoUnit /\ NextSeq
    \/ /\ unit = NoUnit
       /\ calls = 0
       /\ \E c \in RequestConfigs, e \in UnitEntries, n \in KeyNames :
             ApplyNewRequest(c, e, n)
SpecRequest == Init /\ [][NextRequest]_vars

\* Calls made one after the other on the loaders that were built, or the
\* building of a loader from any configuration.
NextConfig ==
    \/ unit = NoUnit /\ NextSeq
    \/ /\ unit = NoUnit
       /\ calls = 0
       /\ \E c \in BuildConfigs : ApplyNewPolicyServiceLoader(c)
SpecConfig == Init /\ [][NextConfig]_vars

\* One loader instance and concurrent callers for every name, the names that
\* KeyToFilename rejects included.
NextNames == NextFor({"L1"}, PolicyNames)
SpecNames == InitKeys /\ [][NextNames]_vars

\* The S3 loader (built by NewS3PolicyLoaderWithClient, with an empty cache)
\* and its concurrent callers.
NextS3 ==
    \/ \E p \in Procs, n \in S3Names : S3Call(p, n)
    \/ \E p \in Procs : S3RLock(p)
    \/ \E p \in Procs : S3Check(p)
    \/ \E p \in Procs, r \in S3Results : S3GetObject(p, r)
    \/ \E p \in Procs : S3Lock(p)
    \/ \E p \in Procs : S3Store(p)
SpecS3 == InitKeys /\ [][NextS3]_vars

\* The name whose entry is loaded when the scenario starts, and its file.
StaleName == <<"a">>
StalePath(c) == FullPath(c, KeyToFilename(StaleName).path)
\* The version the service served for it.
StaleVersion == <<<<"x">>, "v1">>
\* A process that has run for a while: loader L1 fetched StaleName with a 200
\* at instant 0, scheduled the revalidation for one of the instants that
\* nextInterval() could return then, and persisted the text when persistence
\* is enabled; now the callers are idle and the clock reads 1.
InitStale ==
    LET built == {NewPolicyServiceLoader(c).cfg :
                     c \in {i \in CfgInputs : NewPolicyServiceLoader(i).ok}}
    IN
    /\ cfg \in [Loaders -> built]
    /\ cfg["L2"] = CHOOSE c \in built : c.Persist
    /\ mu = [l \in Loaders |-> [writer |-> None, readers |-> {}]]
    /\ \E v \in {StaleVersion}, ns \in nextInterval(cfg["L1"], ZeroTime) :
          /\ cache = [l \in Loaders |-> [n \in PolicyNames |->
                        IF l = "L1" /\ n = StaleName
                        THEN [policyCacheEntry EXCEPT !.module = v[1], !.etag = v[2],
                                                      !.loaded = TRUE, !.nextSync = ns]
                        ELSE NoEntry]]
          /\ disk = [f \in DiskPaths |->
                        IF cfg["L1"].Persist /\ f = StalePath(cfg["L1"]) THEN v[1] ELSE Absent]
          /\ persisted = disk
    /\ now = 1
    /\ procs = [p \in Procs |-> IdleProc]
    /\ ret = NoRet
    /\ calls = 0
    /\ s3mu = [writer |-> None, readers |-> {}]
    /\ s3cache = [n \in S3Names |-> Absent]
    /\ s3procs = [p \in Procs |-> S3IdleProc]
    /\ s3ret = NoS3Ret
    /\ s3calls = 0
    /\ rt = NoEvent
    /\ unit = NoUnit
\* Concurrent callers of that loader, for that name and for another one.
NextStale == NextFor({"L1"}, KeyNames)
SpecStale == InitStale /\ [][NextStale]_vars

\* A process that has just started with a cache directory that an earlier
\* process left behind: the file of StaleName holds a text that was persisted
\* then, and nothing is cached in memory.
InitRestart ==
    LET built == {NewPolicyServiceLoader(c).cfg :
                     c \in {i \in CfgInputs : NewPolicyServiceLoader(i).ok}}
    IN
    /\ cfg \in [Loaders -> built]
    /\ cfg["L2"] = CHOOSE c \in built : c.Persist
    /\ mu = [l \in Loaders |-> [writer |-> None, readers |-> {}]]
    /\ cache = [l \in Loaders |-> [n \in PolicyNames |-> NoEntry]]
    /\ \E text \in Bodies :
          disk = [f \in DiskPaths |-> IF f = StalePath(cfg["L1"]) THEN text ELSE Absent]
    /\ persisted = disk
    /\ now = 1
    /\ procs = [p \in Procs |-> IdleProc]
    /\ ret = NoRet
    /\ calls = 0
    /\ s3mu = [writer |-> None, readers |-> {}]
    /\ s3cache = [n \in S3Names |-> Absent]
    /\ s3procs = [p \in Procs |-> S3IdleProc]
    /\ s3ret = NoS3Ret
    /\ s3calls = 0
    /\ rt = NoEvent
    /\ unit = NoUnit
\* Concurrent callers of that loader for that name.
NextRestart == NextFor({"L1"}, {StaleName})
SpecRestart == InitRestart /\ [][NextRestart]_vars

\* One invocation of the Lambda function with any event.
NextRouter == rt = NoEvent /\ \E ev \in Events, out \in Outcomes : Invoke(ev, out)
SpecRouter == InitFor({}) /\ [][NextRouter]_vars

\* A service that serves one version of every policy: it answers an
\* unconditional request with the body and the token ETagT, and a request that
\* presents ETagT with 304.
ETagT == "v1"
ETagBody == <<"x">>
ETagBackend(req) ==
    IF req.ifNoneMatch = ETagT
    THEN [kind |-> "resp", cause |-> "nil", status |-> 304, body |-> <<>>, etag |-> "",
          readOk |-> TRUE]
    ELSE [kind |-> "resp", cause |-> "nil", status |-> 200, body |-> ETagBody,
          etag |-> ETagT, readOk |-> TRUE]

\* The request of the caller whose request is pending.
PendingRequest(p) ==
    NewRequest(cfg[procs[p].l], cache[procs[p].l][procs[p].n],
               KeyToFilename(procs[p].n).path)

\* One caller at a time against that service.
NextETag ==
    \/ \E l \in Loaders, n \in KeyNames : Call("p1", l, n)
    \/ getEntryRLock("p1")
    \/ getEntryRead("p1")
    \/ getEntryLock("p1")
    \/ getEntryInsert("p1")
    \/ LoadPolicyLock("p1")
    \/ NetRespond("p1", ETagBackend(PendingRequest("p1")))
    \/ entryUpdate("p1")
    \/ persistWrite("p1")
    \/ persistRename("p1")
    \/ Tick
SpecETag == Init /\ [][NextETag]_vars


\* ================================================================ properties

\* The entry fields f are loaded and instant t is strictly before nextSync.
InWindow(f, t) == f.loaded /\ t < f.nextSync
\* Instant t is one that a loader of configuration c may schedule at instant
\* from.
Scheduled(c, from, t) == from + c.PollMin <= t /\ t <= from + c.PollMax /\ t > from

\* A call returned in the last step.
HasReturned == ret.p # None
\* The persisted file of the call that returned.
RetPath == FullPath(cfg[ret.l], KeyToFilename(ret.n).path)
\* The answers of the service after which refreshPolicy fails whatever the
\* entry holds.
FailedAnswers == {"transport", "canceled", "404", "500", "201", "200 unreadable"}
\* The call that returned had its refresh fail.
RefreshFailed ==
    /\ HasReturned
    /\ \/ ret.resp \in FailedAnswers
       \/ ret.resp = "304" /\ ~ret.pre.loaded
       \/ ret.resp = "none" /\ ~KeyToFilename(ret.n).ok
\* The error refreshPolicy returns for each answer.
RefreshErrorOf(resp) ==
    CASE resp = "transport" -> "transport"
      [] resp = "canceled" -> "canceled"
      [] resp = "404" -> "notfound"
      [] resp \in {"500", "201"} -> "status"
      [] resp = "200 unreadable" -> "body"
      [] resp = "304" -> "notmodified"
      [] OTHER -> "invalidname"

\* C1: a LoadPolicy call that finds its entry loaded with the current time
\* strictly before nextSync returns the entry's module text with no error,
\* issues no network request, reads no persisted file and leaves the entry
\* as it is; no request is ever pending for an entry inside its window.
C1_FreshServedFromCache ==
    /\ (HasReturned /\ InWindow(ret.pre, now)) =>
          /\ ret.res = ret.pre.module
          /\ ret.err = "nil"
          /\ ret.reqs = 0
          /\ ret.read = "no"
          /\ ~ret.wrote
          /\ ret.post = ret.pre
    /\ \A p \in Procs :
          procs[p].pc = "net" => ~InWindow(cache[procs[p].l][procs[p].n], now)
C1_Witness ==
    /\ HasReturned
    /\ InWindow(ret.pre, now)
    /\ ret.reqs = 0
    /\ ret.res \in Bodies

\* C2: against the service that answers an unconditional fetch with a body
\* and the token T and a fetch presenting T with 304, every load of a
\* sequence of loads issues one request when its entry is unloaded or its
\* window has elapsed and none inside the window; the request of a load of a
\* loaded entry presents T, is answered 304, and the load returns the text
\* of the first load, leaving module and token as they are.
C2_ETagRevalidation ==
    /\ HasReturned =>
          /\ ret.reqs = IF InWindow(ret.pre, now) THEN 0 ELSE 1
          /\ ret.err = "nil"
          /\ ret.res = ETagBody
          /\ ret.resp = IF InWindow(ret.pre, now) THEN "none"
                        ELSE IF ret.pre.loaded THEN "304" ELSE "200"
          /\ ret.pre.loaded =>
                /\ ret.post.module = ret.pre.module
                /\ ret.post.etag = ret.pre.etag
                /\ ret.res = ret.pre.module
    /\ \A p \in Procs :
          (procs[p].pc = "net" /\ cache[procs[p].l][procs[p].n].loaded) =>
              PendingRequest(p).ifNoneMatch = ETagT
C2_Witness ==
    /\ HasReturned
    /\ ret.pre.loaded
    /\ ~InWindow(ret.pre, now)
    /\ ret.resp = "304"
    /\ ret.reqs = 1
    /\ ret.res = ETagBody

\* C3: when the entry is loaded and the refresh fails (transport error,
\* cancelled context, 404, another status that is not 200, unreadable body),
\* LoadPolicy returns the module text cached before and no error.
C3_StaleServedOnFailure ==
    (RefreshFailed /\ ret.pre.loaded) =>
        /\ ret.res = ret.pre.module
        /\ ret.err = "nil"
C3_Witness ==
    /\ RefreshFailed
    /\ ret.pre.loaded
    /\ ret.resp = "404"
    /\ ret.res \in Bodies

\* C4: calls made one after the other, persistence enabled: a loader whose
\* entry of a name is not loaded and whose request fails on the transport
\* returns, when it can read the persisted copy, the text that the last fetch
\* that persisted its result had fetched, with no error; the entry is then
\* loaded with that text, an empty token and a nextSync that nextInterval
\* schedules from now.
C4_PersistedCopyAdopted ==
    (HasReturned /\ ret.resp = "transport" /\ ~ret.pre.loaded /\ ret.read = "ok") =>
        /\ cfg[ret.l].Persist
        /\ persisted[RetPath] \in Bodies
        /\ ret.res = persisted[RetPath]
        /\ ret.err = "nil"
        /\ ret.post.loaded
        /\ ret.post.module = ret.res
        /\ ret.post.etag = ""
        /\ Scheduled(cfg[ret.l], now, ret.post.nextSync)
C4_Witness ==
    /\ HasReturned
    /\ ret.resp = "transport"
    /\ ~ret.pre.loaded
    /\ ret.read = "ok"
    /\ ret.res \in Bodies
    /\ \E l \in Loaders \ {ret.l} : cache[l][ret.n].loaded /\ cache[l][ret.n].module = ret.res
    /\ cache[ret.l][ret.n].loaded
    /\ cache[ret.l][ret.n].etag = ""

\* C5: when the entry was never loaded, the refresh fails and persistence is
\* disabled or the persisted copy cannot be read, LoadPolicy returns the
\* empty text and the error of the refresh, and the entry stays unloaded.
C5_ErrorWhenNoCopy ==
    (/\ RefreshFailed
     /\ ~ret.pre.loaded
     /\ \/ ~cfg[ret.l].Persist
        \/ ret.read = "failed"
        \/ ~KeyToFilename(ret.n).ok
        \/ disk[RetPath] = Absent) =>
        /\ ret.res = <<>>
        /\ ret.err = RefreshErrorOf(ret.resp)
        /\ ret.err # "nil"
        /\ ~ret.post.loaded
        /\ ret.post = ret.pre
C5_Witness ==
    /\ RefreshFailed
    /\ ~ret.pre.loaded
    /\ cfg[ret.l].Persist
    /\ ret.read = "failed"
    /\ disk[RetPath] # Absent
    /\ ret.err = "transport"

\* C6 as stated: a 404 for a name that was never loaded makes LoadPolicy fail
\* with the not-found error, whatever the persistence setting and the cache
\* directory hold.
C6_NotFoundNeverMasked ==
    (HasReturned /\ ret.resp = "404" /\ ~ret.pre.loaded) =>
        /\ ret.err = "notfound"
        /\ ret.res = <<>>
\* C6 amended: a 404 for a name that was never loaded makes LoadPolicy fail
\* with the not-found error and leave the entry unloaded, unless persistence
\* is enabled and the persisted copy is read: then that copy is returned
\* with no error and the entry adopts it.
C6_NotFoundUnlessPersisted ==
    (HasReturned /\ ret.resp = "404" /\ ~ret.pre.loaded) =>
        /\ ret.reqs = 1
        /\ IF cfg[ret.l].Persist /\ disk[RetPath] # Absent /\ ret.read = "ok"
           THEN /\ ret.res = disk[RetPath]
                /\ ret.err = "nil"
                /\ ret.post.loaded
                /\ ret.post.module = disk[RetPath]
           ELSE /\ ret.res = <<>>
                /\ ret.err = "notfound"
                /\ ret.post = ret.pre
        /\ ret.read = "ok" => (cfg[ret.l].Persist /\ disk[RetPath] # Absent)
C6_Witness ==
    /\ HasReturned
    /\ ret.resp = "404"
    /\ ~ret.pre.loaded
    /\ ret.read = "ok"
    /\ ret.res \in Bodies
    /\ ret.err = "nil"

\* Callers p and q are inside LoadPolicy for the same entry.
SameEntry(p, q) == procs[p].l = procs[q].l /\ procs[p].n = procs[q].n

\* C7: for every loader and name at most one refresh is in flight; the call
\* that refreshes holds the lock of the entry, and the lock is held by no
\* call that is not past the freshness check or has returned.
C7_OneRefreshPerName ==
    /\ \A p, q \in Procs :
          (procs[p].pc \in RefreshPCs /\ procs[q].pc \in RefreshPCs /\ SameEntry(p, q))
              => p = q
    /\ \A p \in Procs :
          procs[p].pc \in RefreshPCs => cache[procs[p].l][procs[p].n].mu = p
    /\ \A l \in Loaders, n \in PolicyNames :
          cache[l][n].mu # None =>
              /\ procs[cache[l][n].mu].pc \in RefreshPCs
              /\ procs[cache[l][n].mu].l = l
              /\ procs[cache[l][n].mu].n = n
C7_Witness ==
    \E p, q \in Procs :
        /\ p # q
        /\ SameEntry(p, q)
        /\ procs[p].pc = "net"
        /\ procs[q].pc = "lockEntry"
        /\ ~InWindow(cache[procs[q].l][procs[q].n], now)

\* C8 as stated: a call that waited for its entry while another call for the
\* same name issued a request issues no request itself and returns what
\* that call returned, whether its refresh succeeded or failed.
C8_SecondIssuesNoRequest ==
    (HasReturned /\ ret.saw.kind # "no") =>
        /\ ret.reqs = 0
        /\ ret.res = ret.saw.res
        /\ ret.err = ret.saw.err
\* C8 amended: two calls for the same name never have their requests in
\* flight together.  A call that waited while another call for the name
\* refreshed the entry (or adopted the persisted copy) issues no request and
\* returns the same text with no error when it finds the entry inside the
\* new window, and issues its own request when the window has elapsed; a
\* call that waited while the refresh of the other call failed and left the
\* entry as it was issues its own request.
C8_SecondAfterFirst ==
    /\ \A p, q \in Procs :
          (procs[p].pc \in RefreshPCs /\ procs[q].pc \in RefreshPCs /\ SameEntry(p, q))
              => p = q
    /\ (HasReturned /\ ret.saw.kind = "ok" /\ InWindow(ret.pre, now)) =>
          /\ ret.reqs = 0
          /\ ret.res = ret.saw.res
          /\ ret.err = "nil"
          /\ ret.saw.err = "nil"
    /\ (HasReturned /\ ret.saw.kind = "ok" /\ ~InWindow(ret.pre, now)) => ret.reqs = 1
    /\ (HasReturned /\ ret.saw.kind = "fail") => ret.reqs = 1
C8_Witness ==
    /\ HasReturned
    /\ ret.saw.kind = "ok"
    /\ InWindow(ret.pre, now)
    /\ ret.reqs = 0
    /\ ret.res \in Bodies

\* Caller p does not keep caller q from its next step.
NotBlockedBy(q, p) ==
    LET l == procs[q].l IN
    /\ procs[q].pc = "getEntry" => mu[l].writer # p
    /\ procs[q].pc = "getEntryLock" => (mu[l].writer # p /\ p \notin mu[l].readers)
    /\ procs[q].pc = "lockEntry" => cache[l][procs[q].n].mu # p

\* C9: the loader-wide lock is held only inside getEntry, while the entry is
\* looked up or inserted, and never by a call whose request or file
\* operation is pending; such a call keeps no call for another name of the
\* same loader from its next step.
C9_OtherNamesNotBlocked ==
    /\ \A l \in Loaders :
          /\ mu[l].writer # None =>
                (procs[mu[l].writer].pc = "getEntryInsert" /\ procs[mu[l].writer].l = l)
          /\ \A p \in mu[l].readers : procs[p].pc = "getEntryRead" /\ procs[p].l = l
    /\ \A p, q \in Procs :
          (/\ procs[p].pc \in RefreshPCs
           /\ procs[q].pc \in WaitingPCs
           /\ procs[q].l = procs[p].l
           /\ procs[q].n # procs[p].n) => NotBlockedBy(q, p)
C9_Witness ==
    /\ HasReturned
    /\ ret.reqs = 1
    /\ ret.res \in Bodies
    /\ \E p \in Procs :
          /\ procs[p].pc = "net"
          /\ procs[p].l = ret.l
          /\ procs[p].n # ret.n
          /\ ~cache[ret.l][procs[p].n].loaded

\* C10 as stated: when the context is cancelled while the request is
\* pending, LoadPolicy returns the cancellation failure and leaves the
\* fields of the entry as they were.
C10_CancelReturnsFailure ==
    (HasReturned /\ ret.resp = "canceled") =>
        /\ ret.err = "canceled"
        /\ ret.post = ret.pre
\* C10 amended: when the context is cancelled while the request is pending,
\* the call is handled as any failed refresh: a loaded entry is left as it
\* was and its module text is returned with no error; an unloaded entry is
\* left as it was and the cancellation failure is returned when persistence
\* is disabled or the persisted copy cannot be read; an unloaded entry adopts
\* the persisted copy, which is returned with no error, when persistence is
\* enabled and the copy is read.
C10_CancelHandledAsFailure ==
    (HasReturned /\ ret.resp = "canceled") =>
        /\ ret.reqs = 1
        /\ ~ret.wrote
        /\ ret.pre.loaded =>
              /\ ret.res = ret.pre.module
              /\ ret.err = "nil"
              /\ ret.post = ret.pre
        /\ (~ret.pre.loaded /\ (~cfg[ret.l].Persist \/ ret.read # "ok")) =>
              /\ ret.res = <<>>
              /\ ret.err = "canceled"
              /\ ret.post = ret.pre
        /\ (~ret.pre.loaded /\ cfg[ret.l].Persist /\ ret.read = "ok") =>
              /\ disk[RetPath] # Absent
              /\ ret.res = disk[RetPath]
              /\ ret.err = "nil"
              /\ ret.post = [module |-> ret.res, etag |-> "", loaded |-> TRUE,
                             nextSync |-> ret.post.nextSync]
              /\ Scheduled(cfg[ret.l], now, ret.post.nextSync)
C10_Witness ==
    /\ HasReturned
    /\ ret.resp = "canceled"
    /\ ret.pre.loaded
    /\ ret.res \in Bodies
    /\ ret.err = "nil"

\* The texts a file of the cache directory can hold.
FileTexts == {Overwrite(a, b) : a \in Bodies \cup {<<>>}, b \in Bodies \cup {<<>>}}
\* The fields f are those of an entry no refresh is half-way through: never
\* loaded and untouched, or loaded with a module and an etag that one
\* response carried, or loaded with an adopted file text and no etag.
WholeEntry(f) ==
    IF ~f.loaded THEN f = Fields(policyCacheEntry)
    ELSE \/ <<f.module, f.etag>> \in Versions
         \/ f.etag = "" /\ f.module \in FileTexts

\* C11: no caller observes a half-updated entry.  An entry whose lock is free
\* is whole; a caller between its request and its return holds the lock of
\* its entry; what a call finds when it has locked the entry and what it
\* leaves are whole entries; a text returned with no error is the module of
\* the entry the call leaves, which is the complete persisted copy when the
\* call adopted it and the complete body of a response otherwise.
C11_NoHalfUpdatedEntry ==
    /\ \A l \in Loaders, n \in PolicyNames :
          (cache[l][n].exists /\ cache[l][n].mu = None) => WholeEntry(Fields(cache[l][n]))
    /\ \A p \in Procs :
          procs[p].pc \in RefreshPCs => cache[procs[p].l][procs[p].n].mu = p
    /\ HasReturned =>
          /\ WholeEntry(ret.pre)
          /\ WholeEntry(ret.post)
          /\ ret.err = "nil" =>
                /\ ret.res = ret.post.module
                /\ IF ret.read = "ok" THEN ret.res = disk[RetPath]
                   ELSE \E v \in Versions : v[1] = ret.res
C11_Witness ==
    \E p, q \in Procs :
        /\ p # q
        /\ SameEntry(p, q)
        /\ procs[p].pc = "update"
        /\ procs[q].pc = "lockEntry"
        /\ ~WholeEntry(Fields(cache[procs[p].l][procs[p].n]))

\* The paths persistPolicy renames its temporary files to.
FinalPaths == {f \in DiskPaths : TmpPath(f) \in DiskPaths}

\* C12: at every moment a file at a final path of the cache directory is
\* absent or holds the complete contents of exactly one write, whatever the
\* writers that persist it concurrently do.
C12_FinalFileWhole ==
    \A f \in FinalPaths : disk[f] = Absent \/ disk[f] \in Bodies

\* C13: with persistence enabled, a call whose fetch succeeded and whose
\* persisted copy was not written (the directory or the temporary file could
\* not be created, the write or the rename failed) returns the fetched text
\* with no error, and leaves the entry loaded with that text, the etag of the
\* response and a nextSync later than the one it found.
C13_PersistFailureAbsorbed ==
    (HasReturned /\ ret.resp = "200" /\ cfg[ret.l].Persist /\ ~ret.wrote) =>
        /\ ret.err = "nil"
        /\ ret.reqs = 1
        /\ <<ret.res, ret.post.etag>> \in Versions
        /\ ret.post.module = ret.res
        /\ ret.post.loaded
        /\ ret.post.nextSync > ret.pre.nextSync
        /\ ret.post.nextSync <= now + cfg[ret.l].PollMax
        /\ ret.post = Fields(cache[ret.l][ret.n])
C13_Witness ==
    /\ HasReturned
    /\ ret.resp = "200"
    /\ cfg[ret.l].Persist
    /\ ~ret.wrote
    /\ ret.res \in Bodies
    /\ disk[RetPath] = Absent
    /\ disk[TmpPath(RetPath)] = <<>>

\* C14: every nextSync that is assigned to an entry lies in
\* [now + PollMin, now + PollMax) when PollMax > PollMin and is now + PollMin
\* when PollMax = PollMin, now being the instant of the assignment.
C14_NextSyncInRange ==
    [][\A l \in Loaders, n \in PolicyNames :
          cache'[l][n].nextSync # cache[l][n].nextSync =>
              IF cfg[l].PollMax > cfg[l].PollMin
              THEN /\ now + cfg[l].PollMin <= cache'[l][n].nextSync
                   /\ cache'[l][n].nextSync < now + cfg[l].PollMax
              ELSE /\ cfg[l].PollMax = cfg[l].PollMin
                   /\ cache'[l][n].nextSync = now + cfg[l].PollMin]_vars
C14_Witness ==
    \E l, k \in Loaders, n \in PolicyNames :
        /\ cfg[l].PollMax > cfg[l].PollMin + 1
        /\ cache[l][n].nextSync = now + cfg[l].PollMax - 1
        /\ cfg[k].PollMax = cfg[k].PollMin
        /\ cache[k][n].nextSync = now + cfg[k].PollMin

\* The names KeyToFilename is specified to accept.
WellFormed == {n \in PolicyNames : n # <<>> /\ \A i \in 1..Len(n) : n[i] \in SegmentChars \cup {"."}}
\* The path the documentation gives for a name: the root segment "policies",
\* the segments of the name and the extension ".rego".
RootedPath(n) ==
    <<"policies", "/">> \o [i \in 1..Len(n) |-> IF n[i] = "." THEN "/" ELSE n[i]] \o <<".rego">>

\* C15: KeyToFilename accepts every well-formed dotted name, maps distinct
\* names to distinct paths, and maps a name to the root segment "policies",
\* the name with each dot replaced by a separator, and ".rego": the file name
\* of every request that is sent is that path.
C15_KeyCodecRooted ==
    /\ \A n \in WellFormed : KeyToFilename(n).ok
    /\ \A n, m \in WellFormed : KeyToFilename(n).path = KeyToFilename(m).path => n = m
    /\ \A p \in Procs :
          procs[p].pc = "net" =>
              /\ procs[p].n \in WellFormed
              /\ KeyToFilename(procs[p].n).path = RootedPath(procs[p].n)

\* C16: every LoadPolicy call for a name that KeyToFilename rejects fails
\* with the invalid-name error and the empty text; it issues no request, the
\* persisted copy is not adopted, and the entry of the name is never loaded,
\* however often the call is repeated.
C16_InvalidNameFails ==
    /\ (HasReturned /\ ret.n \notin WellFormed) =>
          /\ ret.err = "invalidname"
          /\ ret.res = <<>>
          /\ ret.reqs = 0
          /\ ret.read # "ok"
          /\ ~ret.wrote
          /\ ret.pre = Fields(policyCacheEntry)
          /\ ret.post = ret.pre
    /\ \A l \in Loaders, n \in PolicyNames \ WellFormed : ~cache[l][n].loaded
    /\ \A p \in Procs : procs[p].pc \in RefreshPCs => procs[p].n \in WellFormed
C16_Witness ==
    /\ HasReturned
    /\ ret.n = <<"?">>
    /\ ret.err = "invalidname"
    /\ cfg[ret.l].Persist
    /\ ret.read = "failed"
    /\ calls >= 2
    /\ \A m \in PolicyNames \ {ret.n} : ~cache[ret.l][m].exists


\* A call of S3PolicyLoader.LoadPolicy returned in the last step.
S3Returned == s3ret.p # None

\* C17 as stated: once a name has been fetched successfully, every later
\* LoadPolicy for that name returns the same text, the one that was cached
\* when it started, without calling S3 and without an error.
C17_SameTextForever ==
    (S3Returned /\ s3ret.start # Absent) =>
        /\ s3ret.err = "nil"
        /\ s3ret.res = s3ret.start
        /\ s3ret.gets = 0

\* C17, amended: a cached name is never evicted; a LoadPolicy that starts when
\* its name is cached returns, without calling S3 and without an error, the
\* text the cache holds when it reads it; the cached text of a name changes
\* only when a call that started before the name was cached stores the text
\* it fetched successfully, holding the write lock; a call that fails leaves
\* the cache as it was; the cache is read with the read lock held and written
\* with the write lock held exclusively.
C17_CacheForLifeOfProcess ==
    [][ /\ \A n \in S3Names :
            /\ s3cache[n] # Absent => s3cache'[n] # Absent
            /\ s3cache'[n] # s3cache[n] =>
                 /\ s3mu.writer # None
                 /\ s3mu.readers = {}
                 /\ s3ret'.p = s3mu.writer
                 /\ s3ret'.n = n
                 /\ s3ret'.start = Absent
                 /\ s3ret'.err = "nil"
                 /\ s3ret'.gets = 1
                 /\ s3cache'[n] = s3ret'.res
        /\ (s3ret'.p # None /\ s3ret'.start # Absent) =>
             /\ s3ret'.err = "nil"
             /\ s3ret'.gets = 0
             /\ s3ret'.res = s3cache[s3ret'.n]
        /\ (s3ret'.p # None /\ s3ret'.err = "nil" /\ s3ret'.gets = 0) =>
             /\ s3ret'.p \in s3mu.readers
             /\ s3mu.writer = None
             /\ s3ret'.res = s3cache[s3ret'.n]
        /\ (s3ret'.p # None /\ s3ret'.err # "nil") =>
             /\ s3cache' = s3cache
             /\ s3ret'.res = <<>>
    ]_vars
\* A call that started with its name cached returned a cached text that is
\* not the one that was cached when it started.
C17_Witness ==
    /\ S3Returned
    /\ s3ret.start # Absent
    /\ s3ret.res # s3ret.start
    /\ s3ret.gets = 0
    /\ s3cache[s3ret.n] = s3ret.res


\* The marks by which an event is classified, and the response types.
ALBMarked(ev) == ev.probeOk /\ ev.targetGroupArn # ""
V2Marked(ev) == ev.probeOk /\ (ev.version = "2.0" \/ ev.rawPath # "" \/ ev.apiId # "")
RESTMarked(ev) ==
    ev.probeOk /\ ev.version # "2.0" /\ (ev.resource # "" \/ ev.apiId # "" \/ ev.stage # "")
HTTPTypes == {"ALBTargetGroupResponse", "APIGatewayV2HTTPResponse", "APIGatewayProxyResponse"}
\* The event carries, as the handlers read it, a JSON body.
BodyIsJSON(ev) ==
    \/ ev.isBase64Encoded /\ ev.body = "b64-json"
    \/ ~ev.isBase64Encoded /\ ev.body = "raw-json"
\* The event reaches the loader and the evaluator: it parses and names a
\* policy and a payload.
WellFormedRequest(ev, type) ==
    /\ ev.reqOk
    /\ type \in HTTPTypes => BodyIsJSON(ev)
    /\ ev.policy # ""
    /\ ev.payload # "nil"

C19_FailureIsStructured ==
    rt.handled =>
        LET ev == rt.ev
            r == rt.resp
            failed == rt.out \in {"loader-err", "evaluate-err"}
            text == IF rt.out = "loader-err" THEN "loader" ELSE "evaluate"
        IN  /\ r.evals <= 1
            /\ r.type \in HTTPTypes =>
                 /\ r.goErr = "nil"
                 /\ (~ev.reqOk \/ ~BodyIsJSON(ev)) =>
                      /\ r.status = 400
                      /\ r.error # ""
                      /\ r.output = "none"
                      /\ r.evals = 0
                 /\ (WellFormedRequest(ev, r.type) /\ failed) =>
                      /\ r.status = 500
                      /\ r.error = text
                      /\ r.output = "none"
                      /\ r.evals = 1
            /\ r.type = "LambdaResponse" =>
                 /\ ~ev.reqOk => (r.error # "" /\ r.goErr = r.error /\ r.evals = 0)
                 /\ (WellFormedRequest(ev, r.type) /\ failed) =>
                      /\ r.error = text
                      /\ r.goErr = text
                      /\ r.output = "none"
                      /\ r.evals = 1
\* An HTTP handler answered a failure of the evaluator with status 500.
C19_Witness ==
    /\ rt.handled
    /\ rt.resp.type \in HTTPTypes
    /\ rt.out = "evaluate-err"
    /\ rt.resp.status = 500
    /\ rt.resp.error = "evaluate"
    /\ rt.resp.evals = 1


\* C20: a call that gets a 304 issued one request and wrote no persisted
\* copy.  If its entry was never loaded, refreshPolicy returns an error and
\* leaves the entry as it found it.  Otherwise refreshPolicy returns no error;
\* module, etag and loaded are as they were and nextSync is rescheduled from
\* the current time, later than it was; no persisted copy is read; LoadPolicy
\* returns the module text the entry held, with no error.
C20_NotModifiedKeepsEntry ==
    (HasReturned /\ ret.resp = "304") =>
        /\ ret.reqs = 1
        /\ ~ret.wrote
        /\ ~ret.pre.loaded =>
              /\ ret.rerr # "nil"
              /\ ret.mid = ret.pre
        /\ ret.pre.loaded =>
              /\ ret.rerr = "nil"
              /\ ret.err = "nil"
              /\ ret.res = ret.pre.module
              /\ ret.read = "no"
              /\ ret.post = [ret.pre EXCEPT !.nextSync = ret.post.nextSync]
              /\ ret.mid = ret.post
              /\ Scheduled(cfg[ret.l], now, ret.post.nextSync)
              /\ ret.post.nextSync > ret.pre.nextSync
\* A call on a loaded entry that holds an etag got a 304 and returned the
\* entry's module text, with the entry rescheduled.
C20_Witness ==
    /\ HasReturned
    /\ ret.resp = "304"
    /\ ret.pre.loaded
    /\ ret.pre.etag # ""
    /\ ret.res = ret.pre.module
    /\ ret.post.nextSync > ret.pre.nextSync
\* A call on an entry that was never loaded got a 304.
C20_WitnessUnloaded ==
    /\ HasReturned
    /\ ret.resp = "304"
    /\ ~ret.pre.loaded
    /\ ret.rerr = "notmodified"

\* C21 as stated: after any 2xx answer whose body is read (200 or 201) the
\* call returns with no error and leaves its entry loaded.
C21_Any2xxLoads ==
    (HasReturned /\ ret.resp \in {"200", "201"}) =>
        /\ ret.err = "nil"
        /\ ret.post.loaded

\* C21, amended: after a 200 answer whose body is read, the call returns
\* that body with no error and leaves the entry loaded with the body, the
\* Etag of the same response (which may be empty) and a later nextSync; the
\* persisted copy is written by the call only when persistence is enabled,
\* and then with that body.  Any other 2xx answer is a failed refresh that
\* leaves the entry as it was.
C21_OnlyOKLoads ==
    /\ (HasReturned /\ ret.resp = "200") =>
          /\ ret.err = "nil"
          /\ ret.rerr = "nil"
          /\ ret.reqs = 1
          /\ <<ret.res, ret.post.etag>> \in Versions
          /\ ret.post.module = ret.res
          /\ ret.post.loaded
          /\ ret.post.nextSync > ret.pre.nextSync
          /\ ret.post.nextSync <= now + cfg[ret.l].PollMax
          /\ ret.read = "no"
          /\ ret.wrote => (cfg[ret.l].Persist /\ persisted[RetPath] = ret.res)
    /\ (HasReturned /\ ret.resp = "201") =>
          /\ ret.rerr = "status"
          /\ ret.mid = ret.pre
          /\ ~ret.wrote
\* A call got a 200 with an empty Etag, returned the body and wrote the
\* persisted copy.
C21_Witness ==
    /\ HasReturned
    /\ ret.resp = "200"
    /\ ret.post.etag = ""
    /\ ret.res \in Bodies
    /\ ret.wrote
    /\ disk[RetPath] = ret.res
\* A call got a 201 and failed.
C21_Witness201 ==
    /\ HasReturned
    /\ ret.resp = "201"
    /\ ret.err = "status"

\* C22: a call that gets a 404 or a 500 issued one request and wrote no
\* persisted copy; refreshPolicy returned the not-found error for the 404 and
\* the status error for the 500 and left the entry as it found it; a loaded
\* entry is left as it was by LoadPolicy too, and its module text is returned
\* with no error.  refreshPolicy on its own, for every 4xx and 5xx status:
\* the not-found error for 404, else the status error, which carries the
\* status and bytes that lie within the first 1024 of the body; the entry is
\* as it was and persistPolicy is not reached.
C22_StatusFailureLeavesEntry ==
    /\ (HasReturned /\ ret.resp \in {"404", "500"}) =>
          /\ ret.reqs = 1
          /\ ~ret.wrote
          /\ ret.rerr = IF ret.resp = "404" THEN "notfound" ELSE "status"
          /\ ret.mid = ret.pre
          /\ ret.pre.loaded =>
                /\ ret.res = ret.pre.module
                /\ ret.err = "nil"
                /\ ret.post = ret.pre
    /\ (unit.f = "refreshPolicy" /\ unit.r.status \in 400..599) =>
          /\ unit.out.err = IF unit.r.status = 404 THEN "notfound" ELSE "status"
          /\ unit.out.entry = unit.e
          /\ ~unit.out.persist
          /\ unit.r.status # 404 =>
                /\ unit.text.status = unit.r.status
                /\ unit.text.len <= 1024
                /\ unit.text.from + unit.text.len <= 1024
                /\ unit.text.len <= unit.r.raw.core
\* refreshPolicy got a 503 with a body of 3000 bytes: the error carries the
\* first 1024 of them.
C22_Witness ==
    /\ unit.f = "refreshPolicy"
    /\ unit.r.status = 503
    /\ unit.r.raw = [lead |-> 0, core |-> 3000, trail |-> 0]
    /\ unit.out.err = "status"
    /\ unit.text.len = 1024
\* A call on a loaded entry got a 500 and returned the entry's module text.
C22_WitnessStale ==
    /\ HasReturned
    /\ ret.resp = "500"
    /\ ret.pre.loaded
    /\ ret.res = ret.pre.module
    /\ ret.res \in Bodies

\* A URL or prefix without its "/" pieces.
NoSlashes(s) == SelectSeq(s, LAMBDA x : x # "/")
\* The path of name n below the root of the service.
PolicyPath(n) == [i \in 1..Len(n) |-> IF n[i] = "." THEN "/" ELSE n[i]] \o <<".rego">>

\* C23: the request refreshPolicy builds is a GET to the base URL, "/", the
\* resource prefix and "/" when a prefix is configured, and the path of the
\* policy; it carries If-None-Match with the entry's etag exactly when that
\* etag is not empty, and "Authorization: Bearer <token>" exactly when a
\* bearer token is configured.  The request that is pending for a call
\* presents the etag of the call's entry, and the etag of an entry changes
\* only when a call that got a 200 stores the Etag of that answer.
C23_ConditionalGet ==
    [][ /\ unit'.f = "NewRequest" =>
              LET c == unit'.c
                  q == unit'.out
                  prefix == NoSlashes(c.ResourcePrefix)
              IN  /\ q.method = "GET"
                  /\ q.url = NoSlashes(c.ServiceURL) \o <<"/">>
                               \o (IF prefix # <<>> THEN prefix \o <<"/">> ELSE <<>>)
                               \o PolicyPath(unit'.n)
                  /\ q.ifNoneMatch = IF unit'.e.etag # "" THEN unit'.e.etag ELSE None
                  /\ q.authorization = IF c.BearerToken # "" THEN <<"Bearer ", c.BearerToken>>
                                       ELSE <<>>
        /\ \A p \in Procs :
              procs'[p].pc = "net" =>
                 LET e == cache'[procs'[p].l][procs'[p].n]
                 IN  PendingRequest(p)'.ifNoneMatch = IF e.etag # "" THEN e.etag ELSE None
        /\ \A l \in Loaders, n \in PolicyNames :
              cache'[l][n].etag # cache[l][n].etag =>
                 \E p \in Procs :
                    /\ procs[p].pc = "update"
                    /\ procs[p].l = l /\ procs[p].n = n
                    /\ procs[p].pend.resp = "200"
                    /\ cache'[l][n].etag = procs[p].pend.etag
      ]_vars
\* The request for a loaded entry with an etag, built by a loader with a
\* prefix written with slashes and a bearer token.
C23_Witness ==
    /\ unit.f = "NewRequest"
    /\ unit.c.ResourcePrefix = <<"/", "policies", "/">>
    /\ unit.c.BearerToken = "tok"
    /\ unit.e.etag = "v1"
    /\ unit.out.ifNoneMatch = "v1"
    /\ unit.out.url = <<"http://svc", "/", "policies", "/", "a", ".rego">>

\* C24: the persisted copy is written only by a call that got a 200 in a
\* loader with persistence enabled, at the cache directory joined with the
\* path of the policy (no resource prefix), and readPersistedPolicy then
\* returns, from that same path, exactly the module text that was written.
C24_PersistedCopyReadsBack ==
    (HasReturned /\ ret.wrote) =>
        /\ cfg[ret.l].Persist
        /\ ret.resp = "200"
        /\ RetPath = <<cfg[ret.l].CacheDir, "/">> \o PolicyPath(ret.n)
        /\ readPersistedPolicy(cfg[ret.l], ret.n, disk, TRUE) = [ok |-> TRUE, text |-> ret.res]

\* C25: a call reads the persisted copy (successfully or not) only when it
\* found its entry not loaded, its refresh failed and persistence is
\* enabled; a call that found its entry loaded, whose refresh succeeded or
\* whose loader has persistence disabled does not read it.
C25_PersistedCopyLastTier ==
    HasReturned =>
        /\ ret.read # "no" =>
              /\ ~ret.pre.loaded
              /\ RefreshFailed
              /\ ret.rerr # "nil"
              /\ cfg[ret.l].Persist
        /\ (ret.pre.loaded \/ ~RefreshFailed \/ ~cfg[ret.l].Persist) => ret.read = "no"
        /\ (~ret.pre.loaded /\ RefreshFailed /\ cfg[ret.l].Persist) => ret.read # "no"
\* A call on an unloaded entry whose refresh failed read the persisted copy
\* that the other loader instance had written.
C25_Witness ==
    /\ HasReturned
    /\ ~ret.pre.loaded
    /\ RefreshFailed
    /\ cfg[ret.l].Persist
    /\ ret.read = "ok"
    /\ ret.res \in Bodies

\* The positions of a caller that getEntry has returned an entry to.
PastGetEntry == {"lockEntry"} \cup RefreshPCs

\* C26: an entry is never removed; an entry appears only in a step of a
\* caller that holds the loader's write lock for a call of that name, and it
\* is then empty, unloaded and unlocked; a caller that holds the write lock
\* and finds an entry leaves it as it is; when getEntry has returned, the
\* entry of the name exists, so that all callers of a name work on the one
\* entry of that name; no name that was never requested has an entry.
C26_OneEntryPerName ==
    [][ /\ \A l \in Loaders, n \in PolicyNames :
              /\ cache[l][n].exists => cache'[l][n].exists
              /\ (~cache[l][n].exists /\ cache'[l][n].exists) =>
                    /\ cache'[l][n] = policyCacheEntry
                    /\ \E p \in Procs :
                          /\ procs[p].pc = "getEntryInsert"
                          /\ procs[p].l = l /\ procs[p].n = n
                          /\ mu[l].writer = p
                          /\ procs'[p].pc = "lockEntry"
              /\ ~cache'[l][n].exists =>
                    /\ cache'[l][n] = NoEntry
                    /\ \A p \in Procs : ~(/\ procs'[p].pc \in PastGetEntry
                                          /\ procs'[p].l = l /\ procs'[p].n = n)
              /\ cache'[l][n].exists => n \in KeyNames
        /\ \A p \in Procs :
              (/\ procs[p].pc = "getEntryInsert"
               /\ cache[procs[p].l][procs[p].n].exists
               /\ procs'[p].pc = "lockEntry") =>
                  cache'[procs[p].l][procs[p].n] = cache[procs[p].l][procs[p].n]
      ]_vars
\* Two callers made the first requests for one name together: the second
\* holds the write lock and finds the entry the first has inserted and locked.
C26_Witness ==
    \E p, q \in Procs :
        /\ p # q
        /\ SameEntry(p, q)
        /\ procs[p].pc = "getEntryInsert"
        /\ procs[q].pc = "net"
        /\ cache[procs[q].l][procs[q].n].exists
        /\ cache[procs[q].l][procs[q].n].mu = q

\* The configuration c has a positive PollMin, a PollMax that is not below
\* it and a positive HTTPTimeout.
ValidConfig(c) == c.PollMin > 0 /\ c.PollMin <= c.PollMax /\ c.HTTPTimeout > 0

\* C27: NewPolicyServiceLoader fails exactly when the service URL is empty;
\* the configuration it gives a loader has a positive PollMin (10 when the
\* given one is not positive, else the given one), a PollMax that is not
\* below PollMin (PollMin when the given one is below it, else the given
\* one) and a positive HTTPTimeout (15 when the given one is not positive,
\* else the given one); the configuration of a loader satisfies this at all
\* times and no step changes it.
C27_ConfigNormalised ==
    [][ /\ unit'.f = "NewPolicyServiceLoader" =>
              LET in == unit'.c
                  out == unit'.out
                  pmin == IF in.PollMin <= 0 THEN 10 ELSE in.PollMin
              IN  /\ out.ok = (in.ServiceURL # <<>>)
                  /\ out.ok =>
                        /\ ValidConfig(out.cfg)
                        /\ out.cfg.PollMin = pmin
                        /\ out.cfg.PollMax = IF in.PollMax < pmin THEN pmin ELSE in.PollMax
                        /\ out.cfg.HTTPTimeout = IF in.HTTPTimeout <= 0 THEN 15
                                                 ELSE in.HTTPTimeout
                        /\ out.cfg.Persist = in.Persist
                        /\ out.cfg.BearerToken = in.BearerToken
        /\ cfg' = cfg
        /\ \A l \in Loaders : ValidConfig(cfg'[l])
      ]_vars
\* A loader was built from a configuration with a non-positive PollMin, a
\* PollMax below the default and a non-positive timeout.
C27_Witness ==
    /\ unit.f = "NewPolicyServiceLoader"
    /\ unit.c.PollMin = 0
    /\ unit.c.PollMax = 5
    /\ unit.c.HTTPTimeout = -1
    /\ unit.out.ok
    /\ unit.out.cfg.PollMin = 10
    /\ unit.out.cfg.PollMax = 10
    /\ unit.out.cfg.HTTPTimeout = 15
\* The building of a loader failed: the service URL is empty.
C27_WitnessFails ==
    /\ unit.f = "NewPolicyServiceLoader"
    /\ unit.c.ServiceURL = <<>>
    /\ ~unit.out.ok

\* The fields of entry e agree: an entry that is not loaded has no module
\* text and no etag (so that an entry with an etag is loaded).
FieldsAgree(e) ==
    /\ ~e.loaded => (e.module = <<>> /\ e.etag = "")
    /\ e.etag # "" => e.loaded

C29_NoBackOffAfterFailure ==
    /\ (RefreshFailed /\ ret.pre.loaded) =>
          /\ ret.reqs = 1
          /\ ret.err = "nil"
          /\ ret.res = ret.pre.module
          /\ ret.post.nextSync = ret.pre.nextSync
          /\ ret.post.nextSync <= now
          /\ cache[ret.l][ret.n].nextSync = ret.pre.nextSync
    /\ (HasReturned /\ ret.pre.loaded /\ ret.pre.nextSync <= now) => ret.reqs = 1
    /\ (HasReturned /\ ret.pre.loaded /\ ret.saw.kind = "fail") => ret.reqs = 1
    /\ \A p, q \in Procs :
          (p # q /\ SameEntry(p, q) /\ procs[p].pc = "net") => procs[q].pc # "net"
C29_Witness ==
    /\ RefreshFailed
    /\ ret.pre.loaded
    /\ ret.saw.kind = "fail"
    /\ ret.reqs = 1
    /\ ret.res \in Bodies

\* The entry fields f hold a text and no token, as they do after the entry
\* adopted the persisted copy.
LoadedNoToken(f) == f.loaded /\ f.etag = ""
C30_WitnessInWindow ==
    /\ HasReturned
    /\ LoadedNoToken(ret.pre)
    /\ ret.pre.module = <<"x">>
    /\ InWindow(ret.pre, now)
    /\ ret.reqs = 0
    /\ ret.res = <<"x">>
\* The adopted text is returned after a further failure.
C30_WitnessFailure ==
    /\ RefreshFailed
    /\ LoadedNoToken(ret.pre)
    /\ ret.pre.module = <<"x">>
    /\ ret.reqs = 1
    /\ ret.res = <<"x">>

\* The entries whose lock caller p holds.
EntryLocksOf(p) == {ln \in Loaders \X PolicyNames : cache[ln[1]][ln[2]].mu = p}
\* Caller p holds the loader-wide lock of some loader.
HoldsLoaderLock(p) == \E l \in Loaders : mu[l].writer = p \/ p \in mu[l].readers
\* No call holds a loader-wide lock while it waits for or holds an entry
\* lock, a call holds at most one entry lock, the one of its own name,
\* and a caller outside LoadPolicy holds no lock.
LockDiscipline ==
    \A p \in Procs :
        /\ procs[p].pc \in {"lockEntry"} \cup RefreshPCs => ~HoldsLoaderLock(p)
        /\ Cardinality(EntryLocksOf(p)) <= 1
        /\ EntryLocksOf(p) \subseteq {<<procs[p].l, procs[p].n>>}
        /\ procs[p].pc = "idle" => (EntryLocksOf(p) = {} /\ ~HoldsLoaderLock(p))
\* C31: the lock discipline always holds and, when goroutines are scheduled
\* fairly and every network and file operation returns, every call of
\* LoadPolicy returns: a caller inside LoadPolicy is eventually outside.
C31_EveryCallTerminates ==
    /\ []LockDiscipline
    /\ \A p \in Procs : (procs[p].pc # "idle") ~> (procs[p].pc = "idle")
\* A call that waited for the entry's lock while another call refreshed the
\* entry has returned, and no lock is held any more.
C31_Witness ==
    /\ HasReturned
    /\ ret.saw.kind # "no"
    /\ procs[ret.p].pc = "idle"
    /\ \A p \in Procs : EntryLocksOf(p) = {} /\ ~HoldsLoaderLock(p)

\* The callers of the S3 loader hold its lock only where they access the
\* map: the read lock at the lookup, the write lock, alone, at the store,
\* and no lock anywhere else, the fetch included.
S3MapLocked ==
    \A p \in Procs :
        /\ s3procs[p].pc = "check" => (p \in s3mu.readers /\ s3mu.writer = None)
        /\ s3procs[p].pc = "write" => (s3mu.writer = p /\ s3mu.readers = {})
        /\ s3procs[p].pc \notin {"check", "write"} =>
              (p \notin s3mu.readers /\ s3mu.writer # p)
\* C32: the map of the S3 loader is accessed only with the lock held, and
\* the lock is not held during the fetch, so calls for one uncached name can
\* fetch together; a call that fetched returns the text it fetched itself,
\* whatever the cache holds by then, and stores it, so the cache holds the
\* text of the call that stored last.
C32_NoSingleFlight ==
    [][ /\ S3MapLocked
        /\ S3MapLocked'
        /\ (s3ret'.p # None /\ s3ret'.gets = 1 /\ s3ret'.err = "nil") =>
              /\ s3procs[s3ret'.p].pc = "write"
              /\ s3ret'.start = Absent
              /\ s3ret'.res = s3procs[s3ret'.p].policy
              /\ s3cache'[s3ret'.n] = s3ret'.res
              /\ \A m \in S3Names \ {s3ret'.n} : s3cache'[m] = s3cache[m]
        /\ \A p \in Procs :
              (s3procs[p].pc = "fetch" /\ s3procs'[p].pc = "lock") =>
                  /\ s3procs'[p].policy \in Bodies
                  /\ s3cache' = s3cache
        /\ \A p \in Procs :
              (s3procs[p].pc = "lock" /\ s3procs'[p].pc # "idle") =>
                  s3procs'[p].policy = s3procs[p].policy
    ]_vars
\* A call is about to store the text it fetched over the different text
\* that another call for the same name fetched and stored meanwhile.
C32_Witness ==
    \E p \in Procs :
        /\ s3procs[p].pc = "write"
        /\ s3procs[p].start = Absent
        /\ s3cache[s3procs[p].n] # Absent
        /\ s3cache[s3procs[p].n] # s3procs[p].policy
\* Two calls for the same uncached name are both past the lookup and call S3.
C32_WitnessBothFetch ==
    \E p, q \in Procs :
        /\ p # q
        /\ s3procs[p].pc = "fetch"
        /\ s3procs[q].pc = "fetch"
        /\ s3procs[p].n = s3procs[q].n
        /\ s3cache[s3procs[p].n] = Absent

====
